---- MODULE Spec2Model ----
(***************************************************************************)
(* A model of the file-backed document store "mydb": DBHandler (the file,  *)
(* its reader/writer lock, the encode/decode and the append / overwrite /  *)
(* delete-by-match surgery), Document, Model and Schema.                   *)
(*                                                                         *)
(* Text is modelled as a sequence of units.  A unit is a string that       *)
(* stands for one byte of the file ("[", "]", ",", CR, LF, a quote, a      *)
(* letter or a digit) or for an indivisible run of ordinary characters (a  *)
(* key name, the 12 characters of the encoded new line).  Sizes and file   *)
(* offsets are counted in units; every size the code compares against (0,  *)
(* 2, 2 + SEP.length) and every offset it subtracts (1, 3) concerns the    *)
(* single-byte units "[", "]", CR and LF only.                             *)
(***************************************************************************)
EXTENDS Integers, Sequences, FiniteSets, TLC

\* ---------------------------------------------------------------- bounds
\* Number of public operations issued in one behaviour.
MaxOps == 3
\* Last tick of the clock.
MaxTime == 6
\* Number of new_document calls in one behaviour.
MaxDocs == 2

\* ------------------------------------------------------- text primitives
CR == "CR"
LF == "LF"
Q == "\""
NUL == "NUL"

SEP == <<CR, LF>>
newLine == <<CR, LF>>
newLine_encoded == <<"<|NEW-LINE|>">>

\* p occurs in s at index i (JavaScript startsWith(p, i - 1)).
MatchAt(s, i, p) ==
    /\ i + Len(p) - 1 <= Len(s)
    /\ \A k \in 1..Len(p) : s[i + k - 1] = p[k]

\* String.prototype.includes
Includes(s, p) == \E i \in 1..(Len(s) + 1) : MatchAt(s, i, p)

\* s from index i on
Drop(s, i) == IF i > Len(s) THEN <<>> ELSE SubSeq(s, i, Len(s))

\* String.prototype.replaceAll for a non-empty literal pattern
RECURSIVE ReplaceAll(_, _, _)
ReplaceAll(s, p, r) ==
    IF s = <<>> THEN <<>>
    ELSE IF MatchAt(s, 1, p) THEN r \o ReplaceAll(Drop(s, Len(p) + 1), p, r)
    ELSE <<Head(s)>> \o ReplaceAll(Tail(s), p, r)

\* Array.prototype.join
RECURSIVE Join(_, _)
Join(arr, sep) ==
    IF arr = <<>> THEN <<>>
    ELSE IF Len(arr) = 1 THEN arr[1]
    ELSE arr[1] \o sep \o Join(Tail(arr), sep)

\* buffer.split(new RegExp(',' + SEP + '|' + SEP)): at every index the
\* alternative ",SEP" is tried before "SEP"; cur is the piece being read.
RECURSIVE SplitFrom(_, _)
SplitFrom(s, cur) ==
    IF s = <<>> THEN <<cur>>
    ELSE IF MatchAt(s, 1, <<",">> \o SEP)
         THEN <<cur>> \o SplitFrom(Drop(s, Len(SEP) + 2), <<>>)
    ELSE IF MatchAt(s, 1, SEP)
         THEN <<cur>> \o SplitFrom(Drop(s, Len(SEP) + 1), <<>>)
    ELSE SplitFrom(Tail(s), Append(cur, Head(s)))

SplitLines(s) == SplitFrom(s, <<>>)

\* strArray.map(f)
RECURSIVE MapEncode(_)
MapEncode(arr) ==
    IF arr = <<>> THEN <<>>
    ELSE <<ReplaceAll(Head(arr), newLine, newLine_encoded)>> \o MapEncode(Tail(arr))

\* ---------------------------------------------- DBHandler pure functions
prepare_doc_arr_to_str(strArray) ==
    LET dataStr == Join(MapEncode(strArray), <<",">> \o SEP)
    IN  IF Len(dataStr) > 0 THEN <<"[">> \o SEP \o dataStr \o SEP \o <<"]">>
        ELSE dataStr

decode_str(data) ==
    ReplaceAll(ReplaceAll(data, SEP, <<>>), newLine_encoded, newLine)

\* prepare_data_and_truncate cutting two bytes, not three, off a file with records
prepare_data_and_truncate_cut2(size, data0) ==
    LET data == ReplaceAll(data0, newLine, newLine_encoded)
    IN  IF size = 0 THEN <<(<<"[">> \o SEP \o data \o SEP \o <<"]">>), 0>>
        ELSE IF size = 2 THEN <<(SEP \o data \o SEP \o <<"]">>), 1>>
        ELSE IF size <= 2 + Len(SEP) THEN <<(data \o SEP \o <<"]">>), 1>>
        ELSE <<(<<",">> \o SEP \o data \o SEP \o <<"]">>), 2>>

\* Returns <<data, truncateIdx>> for a file of the given size.
prepare_data_and_truncate(size, data0) ==
    LET data == ReplaceAll(data0, newLine, newLine_encoded)
    IN  IF size = 0 THEN <<(<<"[">> \o SEP \o data \o SEP \o <<"]">>), 0>>
        ELSE IF size = 2 THEN <<(SEP \o data \o SEP \o <<"]">>), 1>>
        ELSE IF size <= 2 + Len(SEP) THEN <<(data \o SEP \o <<"]">>), 1>>
        ELSE <<(<<",">> \o SEP \o data \o SEP \o <<"]">>), 3>>

\* The 'data' handler of delete_by_match applied to one chunk: st is
\* [buffer, docStrArray]; every line but the last is filtered and kept,
\* the last one stays in the buffer.
RECURSIVE FilterLines(_, _, _)
FilterLines(lines, pattern, acc) ==
    IF Len(lines) <= 1 THEN acc
    ELSE LET line == Head(lines)
             keep == /\ line # <<>>
                     /\ line # <<"[">>
                     /\ line # <<"]">>
                     /\ ~Includes(line, pattern)
             item == IF line # <<>> /\ line[Len(line)] = ","
                     THEN SubSeq(line, 1, Len(line) - 1)
                     ELSE line
         IN  FilterLines(Tail(lines), pattern, IF keep THEN Append(acc, item) ELSE acc)

OnChunk(st, chunk, pattern) ==
    LET lines == SplitLines(st.buffer \o chunk)
    IN  [buffer |-> lines[Len(lines)],
         docStrArray |-> FilterLines(lines, pattern, st.docStrArray)]

\* The read stream of delete_by_match delivering the file in two chunks cut
\* at offset cut (one chunk when cut is 0 or the file size); the result is
\* docStrArray at 'end'.
delete_filter(content, cut, pattern0) ==
    LET pattern == ReplaceAll(pattern0, newLine, newLine_encoded)
        st0 == [buffer |-> <<>>, docStrArray |-> <<>>]
        c1 == SubSeq(content, 1, cut)
        c2 == Drop(content, cut + 1)
        st1 == IF c1 = <<>> THEN st0 ELSE OnChunk(st0, c1, pattern)
        st2 == IF c2 = <<>> THEN st1 ELSE OnChunk(st1, c2, pattern)
    IN  st2.docStrArray

\* A positional write of data at offset start (0-based) of content: the
\* bytes before start are kept (a hole past the end reads as NUL bytes),
\* the bytes under data are replaced, the bytes beyond data are kept.
RECURSIVE Nuls(_)
Nuls(n) == IF n <= 0 THEN <<>> ELSE <<NUL>> \o Nuls(n - 1)

WriteAt(content, start, data) ==
    LET before == IF start <= Len(content) THEN SubSeq(content, 1, start)
                  ELSE content \o Nuls(start - Len(content))
        after == Drop(content, start + Len(data) + 1)
    IN  IF data = <<>> THEN content ELSE before \o data \o after

\* ------------------------------------------------------------------ JSON
\* A value is [t |-> its typeX name, v |-> its characters]: a string holds
\* its characters (a line break is the units CR, LF), a number its digits,
\* a boolean "true" or "false".  An object is a sequence of <<key, value>>
\* in insertion order, a key being a sequence of units.
\* The clock is small: a tick prints as one unit, also past 9.
Dig == <<"0", "1", "2", "3", "4", "5", "6", "7", "8", "9", "10", "11", "12">>
Digits == {Dig[i] : i \in 1..Len(Dig)}
BoolLits == {"true", "false"}
ESC_R == "\\r"
ESC_N == "\\n"

Str(v) == [t |-> "string", v |-> v]
Num(v) == [t |-> "number", v |-> v]
Bool(v) == [t |-> "boolean", v |-> v]

Has(obj, k) == \E i \in 1..Len(obj) : obj[i][1] = k
Get(obj, k) == obj[CHOOSE i \in 1..Len(obj) : obj[i][1] = k][2]
\* obj[k] = v
Put(obj, k, v) ==
    IF Has(obj, k)
    THEN [i \in 1..Len(obj) |-> IF obj[i][1] = k THEN <<k, v>> ELSE obj[i]]
    ELSE Append(obj, <<k, v>>)

RECURSIVE Escape(_)
Escape(v) ==
    IF v = <<>> THEN <<>>
    ELSE (IF Head(v) = CR THEN <<ESC_R>>
          ELSE IF Head(v) = LF THEN <<ESC_N>>
          ELSE <<Head(v)>>) \o Escape(Tail(v))

stringify_value(val) ==
    IF val.t = "string" THEN <<Q>> \o Escape(val.v) \o <<Q>> ELSE val.v

RECURSIVE stringify_members(_)
stringify_members(obj) ==
    IF obj = <<>> THEN <<>>
    ELSE <<Q>> \o obj[1][1] \o <<Q, ":">> \o stringify_value(obj[1][2])
         \o (IF Len(obj) > 1 THEN <<",">> ELSE <<>>)
         \o stringify_members(Tail(obj))

\* JSON.stringify of an object
JSON_stringify(obj) == <<"{">> \o stringify_members(obj) \o <<"}">>

Fail == [ok |-> FALSE, val |-> <<>>, rest |-> <<>>]
Ok(val, rest) == [ok |-> TRUE, val |-> val, rest |-> rest]

\* White space between tokens is skipped; inside a string it is kept.
RECURSIVE StripWs(_, _)
StripWs(s, inStr) ==
    IF s = <<>> THEN <<>>
    ELSE IF Head(s) = Q THEN <<Q>> \o StripWs(Tail(s), ~inStr)
    ELSE IF ~inStr /\ Head(s) \in {CR, LF} THEN StripWs(Tail(s), inStr)
    ELSE <<Head(s)>> \o StripWs(Tail(s), inStr)

\* The characters of a string literal whose opening quote has been read:
\* a control character inside a string literal is a syntax error.
RECURSIVE ParseChars(_, _)
ParseChars(s, acc) ==
    IF s = <<>> THEN Fail
    ELSE IF Head(s) = Q THEN Ok(acc, Tail(s))
    ELSE IF Head(s) \in {CR, LF, NUL} THEN Fail
    ELSE IF Head(s) = ESC_R THEN ParseChars(Tail(s), Append(acc, CR))
    ELSE IF Head(s) = ESC_N THEN ParseChars(Tail(s), Append(acc, LF))
    ELSE ParseChars(Tail(s), Append(acc, Head(s)))

RECURSIVE ParseDigits(_, _)
ParseDigits(s, acc) ==
    IF s # <<>> /\ Head(s) \in Digits
    THEN ParseDigits(Tail(s), Append(acc, Head(s)))
    ELSE Ok(acc, s)

ParseValue(s) ==
    IF s = <<>> THEN Fail
    ELSE IF Head(s) = Q
         THEN LET r == ParseChars(Tail(s), <<>>)
              IN  IF r.ok THEN Ok(Str(r.val), r.rest) ELSE Fail
    ELSE IF Head(s) \in Digits
         THEN LET r == ParseDigits(s, <<>>) IN Ok(Num(r.val), r.rest)
    ELSE IF Head(s) \in BoolLits THEN Ok(Bool(<<Head(s)>>), Tail(s))
    ELSE Fail

\* The members of an object after "{" or ",": "key":value and then "," or "}"
RECURSIVE ParseMembers(_, _)
ParseMembers(s, acc) ==
    IF s = <<>> \/ Head(s) # Q THEN Fail
    ELSE LET k == ParseChars(Tail(s), <<>>)
         IN  IF ~k.ok \/ k.rest = <<>> \/ Head(k.rest) # ":" THEN Fail
             ELSE LET v == ParseValue(Tail(k.rest))
                  IN  IF ~v.ok \/ v.rest = <<>> THEN Fail
                      ELSE IF Head(v.rest) = "}"
                           THEN Ok(Put(acc, k.val, v.val), Tail(v.rest))
                      ELSE IF Head(v.rest) = ","
                           THEN ParseMembers(Tail(v.rest), Put(acc, k.val, v.val))
                      ELSE Fail

ParseObject(s) ==
    IF s = <<>> \/ Head(s) # "{" THEN Fail
    ELSE IF Len(s) >= 2 /\ s[2] = "}" THEN Ok(<<>>, Drop(s, 3))
    ELSE ParseMembers(Tail(s), <<>>)

\* The elements of an array after "[" or ",": an object and then "," or "]"
RECURSIVE ParseElements(_, _)
ParseElements(s, acc) ==
    LET e == ParseObject(s)
    IN  IF ~e.ok \/ e.rest = <<>> THEN Fail
        ELSE IF Head(e.rest) = "]"
             THEN (IF Tail(e.rest) = <<>> THEN Ok(Append(acc, e.val), <<>>) ELSE Fail)
        ELSE IF Head(e.rest) = "," THEN ParseElements(Tail(e.rest), Append(acc, e.val))
        ELSE Fail

\* JSON.parse of the text of an array of objects: [ok, val]; ok is FALSE
\* where JSON.parse throws a SyntaxError.
JSON_parse(text) ==
    LET s == StripWs(text, FALSE)
    IN  IF s = <<>> \/ Head(s) # "[" THEN Fail
        ELSE IF s = <<"[", "]">> THEN Ok(<<>>, <<>>)
        ELSE ParseElements(Tail(s), <<>>)

\* ---------------------------------------------------------------- Schema
\* A raw field spec (what a caller passes) is [isObj, props], props a
\* sequence of <<property name, value>>; a type given as a constructor
\* (String, Number, Boolean, ...) is the value [t |-> "function", v |-> name].
\* A compiled definition is a sequence of <<field, [type, required, default]>>.
Fn(name) == [t |-> "function", v |-> <<name>>]

allowedTypesAndDefaultsVals ==
    <<  <<"string", Str(<<>>)>>,
        <<"number", Num(<<"0">>)>>,
        <<"boolean", Bool(<<"false">>)>>,
        <<"object", [t |-> "object", v |-> <<>>]>>,
        <<"String", [t |-> "String", v |-> <<>>]>>,
        <<"Number", [t |-> "Number", v |-> <<"0">>]>>,
        <<"Boolean", [t |-> "Boolean", v |-> <<"false">>]>>,
        <<"Date", [t |-> "Date", v |-> <<"0">>]>>,
        <<"Array", [t |-> "Array", v |-> <<>>]>>  >>

allowedParameterProperties == <<"type", "required", "default">>

typeX(x) == x.t

IsTypeName(val) == val.t = "string" /\ Len(val.v) = 1 /\ Has(allowedTypesAndDefaultsVals, val.v[1])

preprocess_definition_parameter(raw) ==
    IF ~raw.isObj THEN raw
    ELSE [raw EXCEPT !.props =
            [i \in 1..Len(raw.props) |->
                IF raw.props[i][1] = "type" /\ raw.props[i][2].t = "function"
                THEN LET name == raw.props[i][2].v[1]
                     IN  <<"type", Str(<<(IF name = "String" THEN "string"
                                         ELSE IF name = "Number" THEN "number"
                                         ELSE name)>>)>>
                ELSE raw.props[i]]]

\* The same test without the comparison of the default with the type
is_valid_definition_param_format_anydefault(valObj) ==
    /\ valObj.isObj
    /\ \A i \in 1..Len(valObj.props) :
          \E j \in 1..Len(allowedParameterProperties) :
              allowedParameterProperties[j] = valObj.props[i][1]
    /\ Has(valObj.props, "type")
    /\ IsTypeName(Get(valObj.props, "type"))
    /\ Has(valObj.props, "required") => typeX(Get(valObj.props, "required")) = "boolean"

is_valid_definition_param_format(valObj) ==
    /\ valObj.isObj
    /\ \A i \in 1..Len(valObj.props) :
          \E j \in 1..Len(allowedParameterProperties) :
              allowedParameterProperties[j] = valObj.props[i][1]
    /\ Has(valObj.props, "type")
    /\ IsTypeName(Get(valObj.props, "type"))
    /\ Has(valObj.props, "required") => typeX(Get(valObj.props, "required")) = "boolean"
    /\ Has(valObj.props, "default") =>
          typeX(Get(valObj.props, "default")) = Get(valObj.props, "type").v[1]

\* One compiled field: each allowed property from the spec, else its default.
compile_param(defParamVal) ==
    LET type == Get(defParamVal.props, "type").v[1]
    IN  [type |-> type,
         required |-> IF Has(defParamVal.props, "required")
                      THEN Get(defParamVal.props, "required").v = <<"true">>
                      ELSE FALSE,
         default |-> IF Has(defParamVal.props, "default")
                     THEN Get(defParamVal.props, "default")
                     ELSE Get(allowedTypesAndDefaultsVals, type)]

\* Schema.#set_definition: [ok, def]; ok is FALSE where it returns null.
set_definition(definition) ==
    LET pre == [i \in 1..Len(definition) |->
                   <<definition[i][1], preprocess_definition_parameter(definition[i][2])>>]
    IN  IF definition = <<>> \/ \E i \in 1..Len(pre) : ~is_valid_definition_param_format(pre[i][2])
        THEN [ok |-> FALSE, def |-> <<>>]
        ELSE [ok |-> TRUE,
              def |-> [i \in 1..Len(pre) |-> <<pre[i][1], compile_param(pre[i][2])>>]]

\* The options argument of a caller: falsy for undefined or null, else the
\* own properties of the object, a sequence of <<name, value>>.  The
\* options of a Schema object are a record with a value for every
\* recognized option; #defaultOptions has one, timestamps: false.
NoOptions == [falsy |-> TRUE, props |-> <<>>]
Options(props) == [falsy |-> FALSE, props |-> props]
defaultOptions == [timestamps |-> FALSE]

\* A set_options under which an option that is not supplied keeps its value
set_options_keep(current, options) ==
    IF options.falsy THEN [ok |-> TRUE, options |-> current]
    ELSE IF Has(options.props, "timestamps")
            /\ typeX(Get(options.props, "timestamps")) # typeX(Bool(<<"false">>))
    THEN [ok |-> FALSE, options |-> current]
    ELSE IF Has(options.props, "timestamps")
    THEN [ok |-> TRUE,
          options |-> [timestamps |-> Get(options.props, "timestamps").v = <<"true">>]]
    ELSE [ok |-> TRUE, options |-> current]

\* Schema.set_options on a schema whose options are current: [ok, options];
\* ok is FALSE where it throws, before #options is assigned.
set_options(current, options) ==
    IF options.falsy THEN [ok |-> TRUE, options |-> defaultOptions]
    ELSE IF Has(options.props, "timestamps")
            /\ typeX(Get(options.props, "timestamps")) # typeX(Bool(<<"false">>))
    THEN [ok |-> FALSE, options |-> current]
    ELSE IF Has(options.props, "timestamps")
    THEN [ok |-> TRUE,
          options |-> [timestamps |-> Get(options.props, "timestamps").v = <<"true">>]]
    ELSE [ok |-> TRUE, options |-> defaultOptions]

\* The definition argument of a caller: the fields of an object, or a value
\* that is no object (null, undefined, a primitive).
Definition(fields) == [isObj |-> TRUE, fields |-> fields]
NoDefinition == [isObj |-> FALSE, fields |-> <<>>]

\* new Schema(definition, options): [ok, schema]; ok is FALSE where the
\* constructor throws.
Schema_constructor(definition, options) ==
    LET d == IF definition.isObj THEN set_definition(definition.fields)
             ELSE [ok |-> FALSE, def |-> <<>>]
        o == set_options(defaultOptions, options)
    IN  IF d.ok /\ o.ok
        THEN [ok |-> TRUE, schema |-> [def |-> d.def, options |-> o.options]]
        ELSE [ok |-> FALSE, schema |-> [def |-> <<>>, options |-> defaultOptions]]

\* get definition: a clone of the compiled definition, as a caller holds it
get_definition(sch) ==
    Definition([i \in 1..Len(sch.def) |->
        <<sch.def[i][1],
          [isObj |-> TRUE,
           props |-> << <<"type", Str(<<sch.def[i][2].type>>)>>,
                        <<"required", Bool(<<IF sch.def[i][2].required THEN "true" ELSE "false">>)>>,
                        <<"default", sch.def[i][2].default>> >>]>>])

\* get options: a clone of the options
get_options(sch) ==
    Options(<< <<"timestamps", Bool(<<IF sch.options.timestamps THEN "true" ELSE "false">>)>> >>)

\* A copy that is built from the definition alone
Schema_copy_definition(original) ==
    Schema_constructor(get_definition(original), NoOptions)

\* Schema.copy(original), original a Schema object: [ok, schema]
Schema_copy(original) ==
    LET n == Schema_constructor(get_definition(original), NoOptions)
        o == set_options(n.schema.options, get_options(original))
    IN  IF n.ok /\ o.ok
        THEN [ok |-> TRUE, schema |-> [n.schema EXCEPT !.options = o.options]]
        ELSE [ok |-> FALSE, schema |-> n.schema]

\* -------------------------------------------------------------- Document
\* Times are clock ticks; -1 is null (or an invalid Date).  A Date
\* prints as the ISO unit of its tick, an id carries the tick's digit.
Iso == <<"T0", "T1", "T2", "T3", "T4", "T5", "T6", "T7", "T8", "T9", "T10", "T11", "T12">>
IsoUnits == {Iso[i] : i \in 1..Len(Iso)}
NullTime == -1

toISOString(t) == Iso[t + 1]
\* new Date(value): the tick, or NullTime when isNaN(new Date(value))
NewDate(val) ==
    IF val.t = "string" /\ Len(val.v) = 1 /\ val.v[1] \in IsoUnits
    THEN (CHOOSE i \in 1..Len(Iso) : Iso[i] = val.v[1]) - 1
    ELSE IF val.t = "number" /\ Len(val.v) = 1
    THEN (CHOOSE i \in 1..Len(Dig) : Dig[i] = val.v[1]) - 1
    ELSE NullTime

ID_KEY == <<"_id">>
CREATED_KEY == <<"createdAt">>
UPDATED_KEY == <<"updatedAt">>

\* Document.#setup_content: [ok, content]; ok is FALSE where it throws.
RECURSIVE setup_content_from(_, _, _)
setup_content_from(schemaDef, content, newContent) ==
    IF schemaDef = <<>> THEN [ok |-> TRUE, content |-> newContent]
    ELSE LET param == schemaDef[1][1]
             spec == schemaDef[1][2]
         IN  IF ~Has(content, param)
             THEN (IF spec.required THEN [ok |-> FALSE, content |-> <<>>]
                   ELSE setup_content_from(Tail(schemaDef), content,
                                           Put(newContent, param, spec.default)))
             ELSE IF spec.type = typeX(Get(content, param))
             THEN setup_content_from(Tail(schemaDef), content,
                                     Put(newContent, param, Get(content, param)))
             ELSE [ok |-> FALSE, content |-> <<>>]

\* A validation that fills the given content in, not an empty object
setup_content_loose(schema, content) == setup_content_from(schema.def, content, content)

setup_content(schema, content) == setup_content_from(schema.def, content, <<>>)

\* Every seed printing as "0"
SeedText_const(idSeed) == <<"0">>

\* The text of a seed: idSeed.toString()
SeedText(idSeed) == IF idSeed < 0 THEN <<"-", Dig[(0 - idSeed) + 1]>> ELSE <<Dig[idSeed + 1]>>

\* new Document(content, schema, dbHandler, idSeed) at time t with random
\* bytes rnd: [ok, doc]; ok is FALSE where the constructor throws.  The
\* fields minted and seed are not data members: they record that the
\* constructor generated the id (this._id === '' held) and the idSeed it
\* was called with.
NewDocumentObj(content, schema, idSeed, t, rnd) ==
    LET sc == setup_content(schema, content)
        \* #init_doc: typeof (content[idMark] === typeof (this._id)) is the
        \* type of a boolean, a non-empty string: any "_id" is adopted.
        id0 == IF Has(content, ID_KEY) THEN Get(content, ID_KEY) ELSE Str(<<>>)
        c0 == IF Has(content, CREATED_KEY) THEN NewDate(Get(content, CREATED_KEY)) ELSE NullTime
        u0 == IF Has(content, UPDATED_KEY) /\ NewDate(Get(content, UPDATED_KEY)) # NullTime
              THEN NewDate(Get(content, UPDATED_KEY))
              ELSE c0
        \* #set_options
        stamp == schema.options.timestamps /\ c0 = NullTime
        id == IF id0 = Str(<<>>)
              THEN Str(SeedText(idSeed) \o <<"-", Dig[t + 1], "-", rnd>>)
              ELSE id0
    IN  IF ~sc.ok THEN [ok |-> FALSE, doc |-> <<>>]
        ELSE [ok |-> TRUE,
              doc |-> [id |-> id,
                       content |-> sc.content,
                       createTime |-> IF stamp THEN t ELSE c0,
                       updateTime |-> IF stamp THEN t ELSE u0,
                       saved |-> FALSE,
                       minted |-> (id0 = Str(<<>>)),
                       seed |-> idSeed]]

\* A reconstruct_doc without the test of createdAt
reconstruct_doc_anytime(content, schema, saved, t, rnd) ==
    LET r == NewDocumentObj(content, schema, -1, t, rnd)
    IN  IF ~r.ok THEN r
        ELSE IF r.doc.id.t = "string" /\ r.doc.id.v # <<>> /\ r.doc.id.v[1] = "-"
        THEN [ok |-> FALSE, doc |-> <<>>]
        ELSE [ok |-> TRUE, doc |-> [r.doc EXCEPT !.saved = saved]]

\* Document.reconstruct_doc: [ok, doc]; ok is FALSE where it returns null.
reconstruct_doc(content, schema, saved, t, rnd) ==
    LET r == NewDocumentObj(content, schema, -1, t, rnd)
    IN  IF ~r.ok THEN r
        ELSE IF r.doc.id.t = "string" /\ r.doc.id.v # <<>> /\ r.doc.id.v[1] = "-"
        THEN [ok |-> FALSE, doc |-> <<>>]
        ELSE IF r.doc.createTime >= t THEN [ok |-> FALSE, doc |-> <<>>]
        ELSE [ok |-> TRUE, doc |-> [r.doc EXCEPT !.saved = saved]]

\* Document.toString
DocToString(doc) ==
    <<"{", Q>> \o ID_KEY \o <<Q, ":", Q>> \o doc.id.v \o <<Q>>
    \o <<",">> \o stringify_members(doc.content)
    \o (IF doc.createTime # NullTime
        THEN <<",", Q>> \o CREATED_KEY \o <<Q, ":", Q, toISOString(doc.createTime), Q>>
        ELSE <<>>)
    \o (IF doc.updateTime # NullTime
        THEN <<",", Q>> \o UPDATED_KEY \o <<Q, ":", Q, toISOString(doc.updateTime), Q>>
        ELSE <<>>)
    \o <<"}">>

\* The pattern Document.save hands to delete_by_match
IdPattern(doc) == ID_KEY \o <<Q, ":", Q>> \o doc.id.v

\* An edit that stamps the update time also when the content is refused
EditDoc_stamp(doc, schema, newContent, t) ==
    LET sc == setup_content(schema, newContent)
    IN  IF ~sc.ok THEN [ok |-> FALSE, doc |-> [doc EXCEPT !.updateTime = t]]
        ELSE [ok |-> TRUE, doc |-> [doc EXCEPT !.content = sc.content, !.updateTime = t]]

\* An edit that stamps the creation time as well
EditDoc_restamp(doc, schema, newContent, t) ==
    LET sc == setup_content(schema, newContent)
    IN  IF ~sc.ok THEN [ok |-> FALSE, doc |-> doc]
        ELSE [ok |-> TRUE, doc |-> [doc EXCEPT !.content = sc.content, !.createTime = t,
                                               !.updateTime = t]]

\* Document.edit at time t: [ok, doc]; ok is FALSE where it throws.
EditDoc(doc, schema, newContent, t) ==
    LET sc == setup_content(schema, newContent)
    IN  IF ~sc.ok THEN [ok |-> FALSE, doc |-> doc]
        ELSE [ok |-> TRUE, doc |-> [doc EXCEPT !.content = sc.content, !.updateTime = t]]

\* ----------------------------------------------------------------- Model
include_docs_array_by_ids(docArray, ids) ==
    SelectSeq(docArray, LAMBDA doc : Has(doc, ID_KEY) /\ Get(doc, ID_KEY) \in ids)

exclude_docs_array_by_ids(docArray, ids) ==
    SelectSeq(docArray, LAMBDA doc : Has(doc, ID_KEY) /\ ~(Get(doc, ID_KEY) \in ids))


\* ----------------------------------------------------------------- state
VARIABLES
    file,         \* the content of the database file, a sequence of units
    lockWriter,   \* #dbRWLock: the operation holding the write lock, or 0
    lockReaders,  \* #dbRWLock: the operations holding a read lock
    lockQueue,    \* #dbRWLock: the operations waiting, in request order
    ops,          \* the handler operations in progress, by slot
    issued,       \* number of public operations issued
    reqs,         \* number of lock requests made
    result,       \* the last settled promise of a public operation
    docs,         \* the Document objects, in creation order
    countDocs,    \* Model.#countDocs
    now,          \* the clock
    schema,       \* the model's schema: [def, options]
    call,         \* the last synchronous call (new_document, edit) and its outcome
    dbFilePath,   \* DBHandler.#dbFilePath: the connected path, or NoPath for null
    disk,         \* what the file system holds at each path
    connect,      \* the connect_dbFilePath call in progress: [pc, path]
    copies,       \* the handlers made by DBHandler.copy: [dbFilePath, writer, readers, queue]
    schemas,      \* the Schema objects of the caller, in creation order
    countDocsLock, \* Model.#countDocsLock: 1 while its write lock is held, else 0
    mydb,         \* the variables of the mydb module: [dbHandler, lastModel], the dbURI
                  \* of the last connect without a model and the connect in progress
    models        \* the models made by mydb.model(): of each, the handler it holds

handlerVars == <<file, lockWriter, lockReaders, lockQueue, copies, ops, reqs>>
modelVars == <<docs, countDocs, schema, call, countDocsLock>>
connVars == <<dbFilePath, disk, connect>>
vars == <<file, lockWriter, lockReaders, lockQueue, ops, issued, reqs, result,
          docs, countDocs, now, schema, call, dbFilePath, disk, connect,
          copies, schemas, countDocsLock, mydb, models>>

OpIds == 1..MaxOps

WriteKinds == {"save", "overwrite", "erase_db", "delete_by_match"}

\* What the promise chain of the caller does when the handler operation
\* settles: t names the step, the other fields are what its closure holds.
NoCont == [t |-> "none", doc |-> 0, text |-> <<>>, ids |-> {}, arr |-> <<>>, asDocument |-> FALSE]
Cont(t) == [NoCont EXCEPT !.t = t]

\* h: the handler of the operation, 0 for the model's handler and k for copies[k]
IdleOp == [kind |-> "idle", seq |-> 0, pc |-> "idle", arg |-> <<>>,
           wdata |-> <<>>, wstart |-> 0, cont |-> NoCont, h |-> 0]
NewOp(kind, seq, arg, wdata, cont) ==
    [kind |-> kind, seq |-> seq, pc |-> "queued", arg |-> arg,
     wdata |-> wdata, wstart |-> 0, cont |-> cont, h |-> 0]

\* val: the text (load) or the objects (find...) resolved with; recon: with
\* asDocument, per object the index in docs of its Document, 0 for null.
NoResult == [op |-> "none", status |-> "none", val |-> <<>>, doc |-> 0, recon |-> <<>>,
             err |-> "none"]
Resolved(op, val) == [NoResult EXCEPT !.op = op, !.status = "resolved", !.val = val]
Rejected(op) == [NoResult EXCEPT !.op = op, !.status = "rejected"]
\* Rejected with new Error(notConnectedErrMsg)
NotConnected(op) == [Rejected(op) EXCEPT !.err = "notConnected"]

\* A path is a sequence of units, the last one its extension; NoPath is
\* null.  The paths given to connect_dbFilePath and what is found there:
\* DbPath is the database file (file holds its content; it may not exist
\* yet), the others are a regular file that is not a .json file, a
\* directory, a path in a directory that does not exist, and a regular
\* .json file that the process may neither read nor write.
NoPath == <<>>
DbPath == <<"db", ".json">>
TxtPath == <<"db", ".txt">>
DirPath == <<"dir", ".json">>
NoDirPath == <<"nodir/", "db", ".json">>
LockedPath == <<"locked", ".json">>
Paths == {DbPath, TxtPath, DirPath, NoDirPath, LockedPath}
DiskWith(db) ==
    [p \in Paths |->
        CASE p = DbPath -> db
          [] p = TxtPath -> "file"
          [] p = DirPath -> "directory"
          [] p = NoDirPath -> "nodir"
          [] p = LockedPath -> "noaccess"]
NoConnect == [pc |-> "idle", path |-> NoPath]

\* The mydb module when it is loaded: dbHandler and lastModel are null.  A
\* handler is named by its index in copies, a model by its index in models.
NoHandler == 0 - 1
NoMydbConnect == [pc |-> "idle", path |-> NoPath, h |-> NoHandler, model |-> 0]
NoMydb == [dbHandler |-> NoHandler, lastModel |-> 0, uri |-> NoPath, connect |-> NoMydbConnect]

\* DBHandler.is_connected
is_connected == dbFilePath # NoPath
NoCall == [op |-> "none", content |-> <<>>, ok |-> TRUE, doc |-> 0]

\* The lowest free slot
FreeSlot == CHOOSE o \in OpIds : ops[o].pc = "idle" /\ \A p \in 1..(o - 1) : ops[p].pc # "idle"

\* -------------------------------------------------------------- the lock
\* The lock grants in request order: a reader is granted when no writer
\* holds the lock and nothing waits before it, a writer when nobody holds
\* the lock and nothing waits before it.  The callback of a granted
\* operation runs at once: save issues fs.stat, load and delete_by_match
\* open a read stream, erase_db issues fs.writeFile, and overwrite calls
\* #save_with_writeStream, whose promise is already resolved when it
\* returns, so that overwrite's release() runs in the same turn, before any
\* byte is written.
RECURSIVE Drain(_)
Drain(st) ==
    IF st.queue = <<>> \/ st.writer # 0 THEN st
    ELSE LET o == Head(st.queue)
             k == st.ops[o].kind
         IN  IF k = "load"
             THEN Drain([st EXCEPT !.queue = Tail(@), !.readers = @ \cup {o},
                                   !.ops[o].pc = "read"])
             ELSE IF st.readers # {} THEN st
             ELSE IF k = "overwrite"
             THEN Drain([st EXCEPT !.queue = Tail(@), !.ops[o].pc = "open"])
             ELSE [st EXCEPT !.queue = Tail(@), !.writer = o,
                             !.ops[o].pc = IF k = "save" THEN "stat"
                                           ELSE IF k = "erase_db" THEN "erase"
                                           ELSE "read"]

\* The lock of handler h and the operations
LockState(opsNow, h) ==
    IF h = 0
    THEN [ops |-> opsNow, h |-> 0,
          writer |-> lockWriter, readers |-> lockReaders, queue |-> lockQueue]
    ELSE [ops |-> opsNow, h |-> h,
          writer |-> copies[h].writer, readers |-> copies[h].readers,
          queue |-> copies[h].queue]

\* this.#dbRWLock.readLock / writeLock called for the operation rec in slot o
Acquire(st, o, rec) ==
    Drain([st EXCEPT !.ops[o] = rec, !.queue = Append(@, o)])

\* release() called by the operation in slot o
Release(st, o) ==
    Drain([st EXCEPT !.writer = IF @ = o THEN 0 ELSE @, !.readers = @ \ {o}])

SetLock(st) ==
    /\ ops' = st.ops
    /\ IF st.h = 0
       THEN /\ lockWriter' = st.writer
            /\ lockReaders' = st.readers
            /\ lockQueue' = st.queue
            /\ UNCHANGED copies
       ELSE /\ copies' = [copies EXCEPT ![st.h].writer = st.writer,
                                        ![st.h].readers = st.readers,
                                        ![st.h].queue = st.queue]
            /\ UNCHANGED <<lockWriter, lockReaders, lockQueue>>

\* ------------------------------------------- DBHandler public operations
CanIssue == issued < MaxOps

\* The public operation a handler operation with continuation cont belongs to
OpName(kind, cont) ==
    CASE cont.t = "none" -> kind
      [] cont.t \in {"saved", "resaved", "deleted_line"} -> "Document.save"
      [] cont.t = "deleted" -> "findByIdAndDelete"
      [] cont.t = "popped" -> "pop_all"
      [] OTHER -> cont.t

\* An operation that asks for the lock without the is_connected() test
Issue_unchecked(kind, arg, wdata, cont) ==
    /\ issued' = issued + 1
    /\ reqs' = reqs + 1
    /\ SetLock(Acquire(LockState(ops, 0), FreeSlot, NewOp(kind, reqs + 1, arg, wdata, cont)))
    /\ UNCHANGED <<result, file>>
    /\ UNCHANGED connVars
    /\ UNCHANGED <<schemas, countDocsLock, mydb, models>>

\* Every public operation checks is_connected() first.  Disconnected, the
\* promise is rejected with the connection error (the handler's overwrite
\* and erase_db, which are not async and build no promise before the test,
\* throw it) and neither the lock nor the file is touched.
Issue(kind, arg, wdata, cont) ==
    /\ issued' = issued + 1
    /\ IF is_connected
       THEN /\ reqs' = reqs + 1
            /\ SetLock(Acquire(LockState(ops, 0), FreeSlot, NewOp(kind, reqs + 1, arg, wdata, cont)))
            /\ UNCHANGED result
       ELSE /\ result' = IF cont.t = "none" /\ kind \in {"overwrite", "erase_db"}
                         THEN [NotConnected(kind) EXCEPT !.status = "thrown"]
                         ELSE NotConnected(OpName(kind, cont))
            /\ UNCHANGED <<lockWriter, lockReaders, lockQueue, copies, ops, reqs>>
    /\ UNCHANGED file
    /\ UNCHANGED connVars
    /\ UNCHANGED <<schemas, countDocsLock, mydb, models>>

\* #dbFilePath of handler h
PathOf(h) == IF h = 0 THEN dbFilePath ELSE copies[h].dbFilePath

\* A public operation of handler h, the model's handler or a copy: the test
\* of is_connected() and the lock asked for are those of h.
IssueOn(h, kind, arg, wdata, cont) ==
    /\ issued' = issued + 1
    /\ IF PathOf(h) # NoPath
       THEN /\ reqs' = reqs + 1
            /\ SetLock(Acquire(LockState(ops, h), FreeSlot,
                               [NewOp(kind, reqs + 1, arg, wdata, cont) EXCEPT !.h = h]))
            /\ UNCHANGED result
       ELSE /\ result' = IF cont.t = "none" /\ kind \in {"overwrite", "erase_db"}
                         THEN [NotConnected(kind) EXCEPT !.status = "thrown"]
                         ELSE NotConnected(OpName(kind, cont))
            /\ UNCHANGED <<lockWriter, lockReaders, lockQueue, copies, ops, reqs>>
    /\ UNCHANGED file
    /\ UNCHANGED connVars
    /\ UNCHANGED <<schemas, countDocsLock, mydb, models>>

\* DBHandler.save(dataStr)
Save(dataStr) ==
    /\ Issue("save", dataStr, <<>>, NoCont)
    /\ UNCHANGED <<docs, countDocs, now, schema, call>>

\* DBHandler.overwrite(strArray): the text is prepared before the lock is asked for
Overwrite(strArray) ==
    /\ Issue("overwrite", <<>>, prepare_doc_arr_to_str(strArray), NoCont)
    /\ UNCHANGED <<docs, countDocs, now, schema, call>>

\* DBHandler.load()
Load ==
    /\ Issue("load", <<>>, <<>>, NoCont)
    /\ UNCHANGED <<docs, countDocs, now, schema, call>>

\* DBHandler.erase_db()
EraseDb ==
    /\ Issue("erase_db", <<>>, <<>>, NoCont)
    /\ UNCHANGED <<docs, countDocs, now, schema, call>>

\* A delete_by_match that takes the empty string for a pattern
DeleteByMatch_any(pattern) ==
    /\ IF is_connected /\ pattern.t # "string"
       THEN /\ issued' = issued + 1
            /\ result' = [Rejected("delete_by_match") EXCEPT !.err = "pattern"]
            /\ UNCHANGED <<file, lockWriter, lockReaders, lockQueue, copies, ops, reqs>>
            /\ UNCHANGED connVars
            /\ UNCHANGED <<schemas, countDocsLock, mydb, models>>
       ELSE Issue("delete_by_match", pattern.v, <<>>, NoCont)
    /\ UNCHANGED <<docs, countDocs, now, schema, call>>

\* DBHandler.delete_by_match(pattern), pattern a value: connected, the
\* empty string and whatever is not a string are rejected before the lock
\* is asked for.
DeleteByMatch(pattern) ==
    /\ IF is_connected /\ (pattern.t # "string" \/ pattern.v = <<>>)
       THEN /\ issued' = issued + 1
            /\ result' = [Rejected("delete_by_match") EXCEPT !.err = "pattern"]
            /\ UNCHANGED <<file, lockWriter, lockReaders, lockQueue, copies, ops, reqs>>
            /\ UNCHANGED connVars
            /\ UNCHANGED <<schemas, countDocsLock, mydb, models>>
       ELSE Issue("delete_by_match", pattern.v, <<>>, NoCont)
    /\ UNCHANGED <<docs, countDocs, now, schema, call>>


\* ------------------------------------------------ steps of the event loop
\* The operation in slot o settles with res and its slot is free again.
Settle(o, st, res) ==
    /\ SetLock([st EXCEPT !.ops[o] = IdleOp])
    /\ result' = res
    /\ UNCHANGED reqs

\* The promise chain goes on with the handler operation (kind, arg, wdata, cont).
Chain(o, st, kind, arg, wdata, cont) ==
    /\ SetLock(Acquire(st, o, [NewOp(kind, reqs + 1, arg, wdata, cont) EXCEPT !.h = st.h]))
    /\ reqs' = reqs + 1
    /\ UNCHANGED result

\* docArray.map(doc => Document.reconstruct_doc(doc, schema, dbHandler, saved))
\* appended to the documents ds: [docs, recon]
RECURSIVE ReconstructAll(_, _, _, _)
ReconstructAll(docArray, saved, ds, recon) ==
    IF docArray = <<>> THEN [docs |-> ds, recon |-> recon]
    ELSE LET r == reconstruct_doc(Head(docArray), schema, saved, now, "e")
         IN  IF r.ok
             THEN ReconstructAll(Tail(docArray), saved, Append(ds, r.doc), Append(recon, Len(ds) + 1))
             ELSE ReconstructAll(Tail(docArray), saved, ds, Append(recon, 0))

\* The filtered documents resolved by findById / findByIdAndDelete
ResolveFiltered(o, st, op, cont, docArray, saved) ==
    LET filtered == include_docs_array_by_ids(docArray, cont.ids)
        rec == ReconstructAll(filtered, saved, docs, <<>>)
    IN  IF cont.asDocument
        THEN /\ Settle(o, st, [Resolved(op, filtered) EXCEPT !.recon = rec.recon])
             /\ docs' = rec.docs
        ELSE /\ Settle(o, st, Resolved(op, filtered))
             /\ UNCHANGED docs

\* fs.stat's callback in save: the size is read, the write is handed to a
\* write stream ('r+', start) and, #save_with_writeStream being an async
\* function that awaits nothing, .finally(release) runs in the same turn.
StatDone(o) ==
    /\ ops[o].pc = "stat"
    /\ LET pd == prepare_data_and_truncate(Len(file), ops[o].arg)
           started == [ops EXCEPT ![o].pc = "write", ![o].wdata = pd[1],
                                  ![o].wstart = Len(file) - pd[2]]
       IN  SetLock(Release(LockState(started, ops[o].h), o))
    /\ UNCHANGED <<file, issued, reqs, result, docs, countDocs, now, schema, call>>
    /\ UNCHANGED connVars
    /\ UNCHANGED <<schemas, countDocsLock, mydb, models>>

\* The read stream of load() ends: the text is decoded, the read lock is
\* released and the promise resolves.
ReadLoad(o) ==
    /\ ops[o].kind = "load" /\ ops[o].pc = "read"
    /\ LET st == Release(LockState(ops, ops[o].h), o)
           cont == ops[o].cont
           text == decode_str(IF file = <<>> THEN <<"[", "]">> ELSE file)
           parsed == JSON_parse(text)
       IN  CASE cont.t = "none" ->
                  Settle(o, st, Resolved("load", text)) /\ UNCHANGED docs
             [] cont.t = "find" ->
                  /\ Settle(o, st, IF parsed.ok THEN Resolved("find", parsed.val)
                                   ELSE Rejected("find"))
                  /\ UNCHANGED docs
             [] cont.t = "findById" ->
                  IF parsed.ok
                  THEN ResolveFiltered(o, st, "findById", cont, parsed.val, TRUE)
                  ELSE Settle(o, st, Rejected("findById")) /\ UNCHANGED docs
             [] cont.t = "findByIdAndDelete" ->
                  /\ IF parsed.ok
                     THEN LET kept == exclude_docs_array_by_ids(parsed.val, cont.ids)
                              strArr == [i \in 1..Len(kept) |-> JSON_stringify(kept[i])]
                          IN  Chain(o, st, "overwrite", <<>>, prepare_doc_arr_to_str(strArr),
                                    [cont EXCEPT !.t = "deleted", !.arr = parsed.val])
                     ELSE Settle(o, st, Rejected("findByIdAndDelete"))
                  /\ UNCHANGED docs
             [] cont.t = "pop_all" ->
                  /\ IF parsed.ok
                     THEN Chain(o, st, "erase_db", <<>>, <<>>,
                                [cont EXCEPT !.t = "popped", !.arr = parsed.val])
                     ELSE Settle(o, st, Rejected("pop_all"))
                  /\ UNCHANGED docs
    /\ UNCHANGED <<file, issued, countDocs, now, schema, call>>
    /\ UNCHANGED connVars
    /\ UNCHANGED <<schemas, countDocsLock, mydb, models>>

\* The read stream of delete_by_match ends, having delivered the file in
\* chunks: the kept lines are handed to a write stream ('w', 0) and
\* .finally(release) runs in the same turn.
ReadEnd(o) ==
    /\ ops[o].kind = "delete_by_match" /\ ops[o].pc = "read"
    /\ \E cut \in 0..Len(file) :
          LET docStrArray == delete_filter(file, cut, ops[o].arg)
              started == [ops EXCEPT ![o].pc = "open",
                                     ![o].wdata = prepare_doc_arr_to_str(docStrArray)]
          IN  SetLock(Release(LockState(started, ops[o].h), o))
    /\ UNCHANGED <<file, issued, reqs, result, docs, countDocs, now, schema, call>>
    /\ UNCHANGED connVars
    /\ UNCHANGED <<schemas, countDocsLock, mydb, models>>

\* An erase_db that leaves the file as it is
EraseLand_keep(o) ==
    /\ ops[o].pc = "erase"
    /\ SetLock(Release(LockState([ops EXCEPT ![o].pc = "timer"], ops[o].h), o))
    /\ UNCHANGED <<file, issued, reqs, result, docs, countDocs, now, schema, call>>
    /\ UNCHANGED connVars
    /\ UNCHANGED <<schemas, countDocsLock, mydb, models>>

\* fs.writeFile(path, '') of erase_db completes: its callback releases the lock.
EraseLand(o) ==
    /\ ops[o].pc = "erase"
    /\ file' = <<>>
    /\ SetLock(Release(LockState([ops EXCEPT ![o].pc = "timer"], ops[o].h), o))
    /\ UNCHANGED <<issued, reqs, result, docs, countDocs, now, schema, call>>
    /\ UNCHANGED connVars
    /\ UNCHANGED <<schemas, countDocsLock, mydb, models>>

\* A write stream opened with flag 'w' truncates the file.
OpenLand(o) ==
    /\ ops[o].pc = "open"
    /\ file' = <<>>
    /\ ops' = [ops EXCEPT ![o].pc = "write"]
    /\ UNCHANGED <<lockWriter, lockReaders, lockQueue, copies, issued, reqs, result,
                   docs, countDocs, now, schema, call>>
    /\ UNCHANGED connVars
    /\ UNCHANGED <<schemas, countDocsLock, mydb, models>>

\* The write stream writes its data at its start offset.
WriteLand(o) ==
    /\ ops[o].pc = "write"
    /\ file' = WriteAt(file, ops[o].wstart, ops[o].wdata)
    /\ ops' = [ops EXCEPT ![o].pc = "timer"]
    /\ UNCHANGED <<lockWriter, lockReaders, lockQueue, copies, issued, reqs, result,
                   docs, countDocs, now, schema, call>>
    /\ UNCHANGED connVars
    /\ UNCHANGED <<schemas, countDocsLock, mydb, models>>

\* setTimeout(resolve, 10) fires.  The delay is there to outlast the write
\* ("it takes some time for the OS to write the data into the disk"), and
\* the model grants it that: the timer fires once the bytes are written.
TimerFire(o) ==
    /\ ops[o].pc = "timer"
    /\ now < MaxTime
    /\ now' = now + 1
    /\ LET st == LockState(ops, ops[o].h)
           cont == ops[o].cont
       IN  CASE cont.t = "none" ->
                  Settle(o, st, Resolved(ops[o].kind, <<>>)) /\ UNCHANGED docs
             [] cont.t \in {"saved", "resaved"} ->
                  /\ Settle(o, st, [Resolved("Document.save", <<>>) EXCEPT !.doc = cont.doc])
                  /\ docs' = [docs EXCEPT ![cont.doc].saved = TRUE]
             [] cont.t = "deleted_line" ->
                  /\ Chain(o, st, "save", cont.text, <<>>, [cont EXCEPT !.t = "resaved"])
                  /\ UNCHANGED docs
             [] cont.t = "deleted" ->
                  ResolveFiltered(o, st, "findByIdAndDelete", cont, cont.arr, FALSE)
             [] cont.t = "popped" ->
                  Settle(o, st, Resolved("pop_all", cont.arr)) /\ UNCHANGED docs
             [] cont.t = "delete_all" ->
                  Settle(o, st, Resolved("delete_all", <<>>)) /\ UNCHANGED docs
    /\ UNCHANGED <<file, issued, countDocs, schema, call>>
    /\ UNCHANGED connVars
    /\ UNCHANGED <<schemas, countDocsLock, mydb, models>>


\* ------------------------------------------------------- storage failures
\* The lock holder of a grant whose release() is never called
Leaked == 0 - 1

\* The continuations whose handler promise has no rejection handler: the
\* save after the removal in Document.save, the overwrite in
\* findByIdAndDelete and the erase_db in pop_all (their .catch is commented
\* out).
Uncaught == {"resaved", "deleted", "popped"}

\* The handler promise of the operation in slot o is rejected: the public
\* promise is rejected where a .catch hands the error on, and stays pending
\* where there is none.
RejectOp(o, st) ==
    LET cont == ops[o].cont
    IN  IF cont.t \in Uncaught
        THEN /\ SetLock([st EXCEPT !.ops[o].pc = "pending"])
             /\ UNCHANGED <<result, reqs>>
        ELSE Settle(o, st, [Rejected(OpName(ops[o].kind, cont))
                               EXCEPT !.doc = cont.doc, !.err = "storage"])

\* fs.stat fails in save: reject(err), and release() is not called.
StatFail(o) ==
    /\ ops[o].pc = "stat"
    /\ RejectOp(o, [LockState(ops, ops[o].h) EXCEPT !.writer = Leaked])
    /\ UNCHANGED <<file, issued, docs, countDocs, now, schema, call>>
    /\ UNCHANGED connVars
    /\ UNCHANGED <<schemas, countDocsLock, mydb, models>>

\* The read stream fails: load rejects and releases the read lock
\* (.finally), delete_by_match rejects in on('error') and does not release.
ReadFail(o) ==
    /\ ops[o].pc = "read"
    /\ IF ops[o].kind = "load"
       THEN RejectOp(o, Release(LockState(ops, ops[o].h), o))
       ELSE RejectOp(o, [LockState(ops, ops[o].h) EXCEPT !.writer = Leaked])
    /\ UNCHANGED <<file, issued, docs, countDocs, now, schema, call>>
    /\ UNCHANGED connVars
    /\ UNCHANGED <<schemas, countDocsLock, mydb, models>>

\* fs.writeFile(path, '') of erase_db fails: reject(err), then release().
EraseFail(o) ==
    /\ ops[o].pc = "erase"
    /\ RejectOp(o, Release(LockState(ops, ops[o].h), o))
    /\ UNCHANGED <<file, issued, docs, countDocs, now, schema, call>>
    /\ UNCHANGED connVars
    /\ UNCHANGED <<schemas, countDocsLock, mydb, models>>

\* The write stream fails to open or to write: the callbacks throw, which no
\* promise sees; nothing handles the exception, the process ends with it
\* and the promise of the operation never settles.
WriteFail(o) ==
    /\ ops[o].pc \in {"open", "write"}
    /\ ops' = [ops EXCEPT ![o].pc = "pending"]
    /\ UNCHANGED <<file, lockWriter, lockReaders, lockQueue, copies, issued, reqs, result,
                   docs, countDocs, now, schema, call>>
    /\ UNCHANGED connVars
    /\ UNCHANGED <<schemas, countDocsLock, mydb, models>>

\* ------------------------------------------------ connect and disconnect
dbFileExt == ".json"
ExtUnits == {".json", ".txt"}
\* path.extname
extname(path) ==
    IF Len(path) >= 2 /\ path[Len(path)] \in ExtUnits THEN path[Len(path)] ELSE ""

\* fs.constants.F_OK, W_OK, R_OK, and stats.mode & constant: of the bits
\* tested, a regular file of the process has 2 and 4 set in its mode, a
\* file without permissions has none.
F_OK == 0
W_OK == 2
R_OK == 4
ModeBits(kind) == IF kind = "file" THEN {W_OK, R_OK} ELSE {}
ModeAnd(kind, constant) == IF constant \in ModeBits(kind) THEN constant ELSE 0

\* check_db_file: "not the right permissions"
permissions_refused(kind) ==
    /\ ModeAnd(kind, F_OK) # 0
    /\ ModeAnd(kind, W_OK) # 0
    /\ ModeAnd(kind, R_OK) # 0

ConnectRejected(cause) == [Rejected("connect") EXCEPT !.err = cause]

\* The same call keeping the connection it had while the file is checked
ConnectCall_keep(path) ==
    /\ connect.pc = "idle"
    /\ IF extname(path) # dbFileExt
       THEN /\ result' = [ConnectRejected("fileType") EXCEPT !.val = <<path>>]
            /\ UNCHANGED connect
       ELSE /\ connect' = [pc |-> "stat", path |-> path]
            /\ UNCHANGED result
    /\ UNCHANGED <<file, lockWriter, lockReaders, lockQueue, copies, ops, issued, reqs,
                   docs, countDocs, now, schema, call, schemas, countDocsLock, mydb, models, disk, dbFilePath>>

\* connect_dbFilePath(path) is called: the handler is disconnected, and
\* check_db_file rejects a path that is not a .json file or issues fs.stat.
ConnectCall(path) ==
    /\ connect.pc = "idle"
    /\ dbFilePath' = NoPath
    /\ IF extname(path) # dbFileExt
       THEN /\ result' = [ConnectRejected("fileType") EXCEPT !.val = <<path>>]
            /\ UNCHANGED connect
       ELSE /\ connect' = [pc |-> "stat", path |-> path]
            /\ UNCHANGED result
    /\ UNCHANGED <<file, lockWriter, lockReaders, lockQueue, copies, ops, issued, reqs,
                   docs, countDocs, now, schema, call, schemas, countDocsLock, mydb, models, disk>>

\* The callback of fs.stat in check_db_file
ConnectStat ==
    /\ connect.pc = "stat"
    /\ LET path == connect.path
           kind == disk[path]
       IN  IF kind \in {"missing", "nodir"}
           THEN \* ENOENT: fs.writeFile(path, '') is issued
                /\ connect' = [connect EXCEPT !.pc = "create"]
                /\ UNCHANGED <<result, dbFilePath>>
           ELSE /\ connect' = NoConnect
                /\ IF kind = "directory"
                   THEN /\ result' = [ConnectRejected("notFile") EXCEPT !.val = <<path>>]
                        /\ UNCHANGED dbFilePath
                   ELSE IF permissions_refused(kind)
                   THEN /\ result' = [ConnectRejected("permission") EXCEPT !.val = <<path>>]
                        /\ UNCHANGED dbFilePath
                   ELSE /\ result' = Resolved("connect", <<path>>)
                        /\ dbFilePath' = path
    /\ UNCHANGED <<file, lockWriter, lockReaders, lockQueue, copies, ops, issued, reqs,
                   docs, countDocs, now, schema, call, schemas, countDocsLock, mydb, models, disk>>

\* The callback of fs.writeFile in check_db_file: the file is there, empty,
\* or could not be created.
ConnectCreate ==
    /\ connect.pc = "create"
    /\ connect' = NoConnect
    /\ LET path == connect.path
       IN  IF disk[path] = "missing"
           THEN /\ disk' = [disk EXCEPT ![path] = "file"]
                /\ file' = IF path = DbPath THEN <<>> ELSE file
                /\ result' = Resolved("connect", <<path>>)
                /\ dbFilePath' = path
           ELSE /\ result' = [ConnectRejected("create") EXCEPT !.val = <<path>>]
                /\ UNCHANGED <<disk, file, dbFilePath>>
    /\ UNCHANGED <<lockWriter, lockReaders, lockQueue, copies, ops, issued, reqs,
                   docs, countDocs, now, schema, call, schemas, countDocsLock, mydb, models>>

\* DBHandler.disconnect
Disconnect ==
    /\ dbFilePath' = NoPath
    /\ UNCHANGED <<file, lockWriter, lockReaders, lockQueue, copies, ops, issued, reqs, result,
                   docs, countDocs, now, schema, call, schemas, countDocsLock, mydb, models, disk, connect>>

\* ----------------------------------------------------------- DBHandler.copy
MaxCopies == 2

\* A copy that takes the lock of the old handler as it finds it
DBHandlerCopy_lock(h) ==
    /\ Len(copies) < MaxCopies
    /\ h \in 0..Len(copies)
    /\ LET st == LockState(ops, h)
       IN  copies' = Append(copies, [dbFilePath |-> PathOf(h), writer |-> st.writer,
                                     readers |-> st.readers, queue |-> st.queue])
    /\ UNCHANGED <<file, lockWriter, lockReaders, lockQueue, ops, issued, reqs, result,
                   docs, countDocs, now, schema, call, schemas, countDocsLock, mydb, models>>
    /\ UNCHANGED connVars

\* DBHandler.copy(oldHandler) of handler h: a new DBHandler, whose
\* constructor makes a new ReadWriteLock, with the #dbFilePath of the old one.
DBHandlerCopy(h) ==
    /\ Len(copies) < MaxCopies
    /\ h \in 0..Len(copies)
    /\ copies' = Append(copies, [dbFilePath |-> PathOf(h), writer |-> 0,
                                 readers |-> {}, queue |-> <<>>])
    /\ UNCHANGED <<file, lockWriter, lockReaders, lockQueue, ops, issued, reqs, result,
                   docs, countDocs, now, schema, call, schemas, countDocsLock, mydb, models>>
    /\ UNCHANGED connVars

\* ------------------------------------------------------------------ mydb
MaxModels == 3
MaxHandlers == 4

\* new DBHandler()
NewHandler == [dbFilePath |-> NoPath, writer |-> 0, readers |-> {}, queue |-> <<>>]

\* What a call of the mydb module leaves as it is
MydbFrame ==
    /\ UNCHANGED <<lockWriter, lockReaders, lockQueue, ops, issued, reqs, docs, countDocs,
                   now, schema, schemas, countDocsLock, dbFilePath, connect>>

\* check_db_file(path): the cause of its rejection, "created" where it
\* makes the file, "ok" where it finds it
check_db_file(path) ==
    CASE extname(path) # dbFileExt -> "fileType"
      [] disk[path] = "missing" -> "created"
      [] disk[path] = "nodir" -> "create"
      [] disk[path] = "directory" -> "notFile"
      [] permissions_refused(disk[path]) -> "permission"
      [] OTHER -> "ok"

\* mydb.model(nameDB, schema) with a valid schema: the model gets a copy of
\* the module's handler, or a new handler when there is none, and is
\* lastModel from now on.
MydbModel ==
    /\ Len(models) < MaxModels
    /\ Len(copies) < MaxHandlers
    /\ copies' = Append(copies,
                        IF mydb.dbHandler # NoHandler
                        THEN [NewHandler EXCEPT !.dbFilePath = copies[mydb.dbHandler].dbFilePath]
                        ELSE NewHandler)
    /\ models' = Append(models, Len(copies) + 1)
    /\ mydb' = [mydb EXCEPT !.lastModel = Len(models) + 1]
    /\ call' = [op |-> "mydb.model", content |-> <<>>, ok |-> TRUE, doc |-> Len(models) + 1]
    /\ UNCHANGED <<file, disk, result>>
    /\ MydbFrame

\* mydb.connect(dbURI, options, model), m = 0 for a call without a model:
\* without one the module gets a new handler; connect_dbFilePath of the
\* handler disconnects it and checks the file.
MydbConnect(dbURI, m) ==
    /\ mydb.connect.pc = "idle"
    /\ m \in 0..Len(models)
    /\ IF m = 0
       THEN /\ Len(copies) < MaxHandlers
            /\ copies' = Append(copies, NewHandler)
            /\ mydb' = [mydb EXCEPT !.dbHandler = Len(copies) + 1, !.uri = dbURI,
                                    !.connect = [pc |-> "check", path |-> dbURI,
                                                 h |-> Len(copies) + 1, model |-> 0]]
       ELSE /\ copies' = [copies EXCEPT ![models[m]].dbFilePath = NoPath]
            /\ mydb' = [mydb EXCEPT !.connect = [pc |-> "check", path |-> dbURI,
                                                 h |-> models[m], model |-> m]]
    /\ call' = [op |-> "mydb.connect", content |-> dbURI, ok |-> TRUE, doc |-> m]
    /\ UNCHANGED <<file, disk, result, models>>
    /\ MydbFrame

\* check_db_file settles and the promise of mydb.connect with it: the
\* handler is connected where the file is found or made; after a call
\* without a model lastModel is given the handler that the module holds by
\* now (the setter ignores null), and on rejection the module's handler is
\* set to null.
MydbConnectSettle ==
    /\ mydb.connect.pc = "check"
    /\ LET c == mydb.connect
           outcome == check_db_file(c.path)
           valid == outcome \in {"ok", "created"}
       IN  /\ copies' = IF valid THEN [copies EXCEPT ![c.h].dbFilePath = c.path] ELSE copies
           /\ disk' = IF outcome = "created" THEN [disk EXCEPT ![c.path] = "file"] ELSE disk
           /\ file' = IF outcome = "created" /\ c.path = DbPath THEN <<>> ELSE file
           /\ result' = IF valid THEN [Resolved("mydb.connect", <<c.path>>) EXCEPT !.doc = c.model]
                        ELSE [ConnectRejected(outcome) EXCEPT !.op = "mydb.connect",
                                                              !.val = <<c.path>>, !.doc = c.model]
           /\ models' = IF valid /\ c.model = 0 /\ mydb.lastModel # 0
                           /\ mydb.dbHandler # NoHandler
                        THEN [models EXCEPT ![mydb.lastModel] = mydb.dbHandler]
                        ELSE models
           /\ mydb' = [mydb EXCEPT !.connect = NoMydbConnect,
                                   !.dbHandler = IF ~valid /\ c.model = 0 THEN NoHandler ELSE @]
    /\ UNCHANGED call
    /\ MydbFrame

\* mydb.disconnect(model), m = 0 for a call without a model
MydbDisconnect(m) ==
    /\ m \in 0..Len(models)
    /\ IF m # 0
       THEN /\ copies' = [copies EXCEPT ![models[m]].dbFilePath = NoPath]
            /\ UNCHANGED mydb
       ELSE /\ copies' = IF mydb.lastModel # 0
                         THEN [copies EXCEPT ![models[mydb.lastModel]].dbFilePath = NoPath]
                         ELSE copies
            /\ mydb' = [mydb EXCEPT !.dbHandler = NoHandler]
    /\ call' = [op |-> "mydb.disconnect", content |-> <<>>, ok |-> TRUE, doc |-> m]
    /\ UNCHANGED <<file, disk, result, models>>
    /\ MydbFrame

\* ---------------------------------------------- Model and Document calls
IssueModel(kind, arg, cont) ==
    /\ Issue(kind, arg, <<>>, cont)
    /\ UNCHANGED <<docs, countDocs, now, schema, call>>

\* Document.save() of docs[d]: the text is taken when save is called
DocSave(d) ==
    /\ d \in 1..Len(docs)
    /\ LET docStr == DocToString(docs[d])
       IN  IF docs[d].saved
           THEN IssueModel("delete_by_match", IdPattern(docs[d]),
                           [Cont("deleted_line") EXCEPT !.doc = d, !.text = docStr])
           ELSE IssueModel("save", docStr, [Cont("saved") EXCEPT !.doc = d])

\* Model.find()
Find == IssueModel("load", <<>>, Cont("find"))

\* Model.findById(ids, {asDocument})
FindById(ids, asDocument) ==
    IssueModel("load", <<>>, [Cont("findById") EXCEPT !.ids = ids, !.asDocument = asDocument])

\* Model.findByIdAndDelete(ids, {asDocument})
FindByIdAndDelete(ids, asDocument) ==
    IssueModel("load", <<>>,
               [Cont("findByIdAndDelete") EXCEPT !.ids = ids, !.asDocument = asDocument])

\* Model.delete_all()
DeleteAll == IssueModel("erase_db", <<>>, Cont("delete_all"))

\* Model.pop_all()
PopAll == IssueModel("load", <<>>, Cont("pop_all"))

\* A new_document whose callback releases the lock after a successful
\* construction only
NewDocument_hold(content, rnd) ==
    /\ countDocs < MaxDocs
    /\ IF countDocsLock = 0
       THEN LET r == NewDocumentObj(content, schema, countDocs, now, rnd)
            IN  /\ docs' = IF r.ok THEN Append(docs, r.doc) ELSE docs
                /\ call' = [op |-> "new_document", content |-> content, ok |-> r.ok,
                            doc |-> IF r.ok THEN Len(docs) + 1 ELSE 0]
                /\ countDocs' = countDocs + 1
                /\ countDocsLock' = IF r.ok THEN 0 ELSE 1
       ELSE /\ call' = [op |-> "new_document", content |-> content, ok |-> TRUE, doc |-> 0]
            /\ UNCHANGED <<docs, countDocs, countDocsLock>>
    /\ UNCHANGED <<file, lockWriter, lockReaders, lockQueue, copies, ops, issued, reqs,
                   result, now, schema>>
    /\ UNCHANGED connVars
    /\ UNCHANGED <<schemas, mydb, models>>

\* Model.new_document(content): the callback of #countDocsLock.writeLock runs
\* at once when the lock is free; #countDocs++ is evaluated before the
\* constructor can throw, and release() runs in the finally of the callback,
\* before the error leaves new_document.  Were the lock held, the callback
\* would wait and new_document return undefined.
NewDocument(content, rnd) ==
    /\ countDocs < MaxDocs
    /\ IF countDocsLock = 0
       THEN LET r == NewDocumentObj(content, schema, countDocs, now, rnd)
            IN  /\ docs' = IF r.ok THEN Append(docs, r.doc) ELSE docs
                /\ call' = [op |-> "new_document", content |-> content, ok |-> r.ok,
                            doc |-> IF r.ok THEN Len(docs) + 1 ELSE 0]
                /\ countDocs' = countDocs + 1
                /\ countDocsLock' = 0
       ELSE /\ call' = [op |-> "new_document", content |-> content, ok |-> TRUE, doc |-> 0]
            /\ UNCHANGED <<docs, countDocs, countDocsLock>>
    /\ UNCHANGED <<file, lockWriter, lockReaders, lockQueue, copies, ops, issued, reqs,
                   result, now, schema>>
    /\ UNCHANGED connVars
    /\ UNCHANGED <<schemas, mydb, models>>

\* Document.edit(newContent) of docs[d]
Edit(d, newContent) ==
    /\ d \in 1..Len(docs)
    /\ LET r == EditDoc(docs[d], schema, newContent, now)
       IN  /\ docs' = [docs EXCEPT ![d] = r.doc]
           /\ call' = [op |-> "edit", content |-> newContent, ok |-> r.ok, doc |-> d]
    /\ UNCHANGED <<file, lockWriter, lockReaders, lockQueue, copies, ops, issued, reqs,
                   result, countDocs, now, schema>>
    /\ UNCHANGED connVars
    /\ UNCHANGED <<schemas, countDocsLock, mydb, models>>

\* Document.reconstruct_doc(content, schema, dbHandler, saved) called by the
\* caller: the whole body is in a try whose catch logs and returns null.
ReconstructDoc(content, saved) ==
    /\ LET r == reconstruct_doc(content, schema, saved, now, "e")
       IN  /\ docs' = IF r.ok THEN Append(docs, r.doc) ELSE docs
           /\ call' = [op |-> "reconstruct_doc", content |-> content, ok |-> r.ok,
                       doc |-> IF r.ok THEN Len(docs) + 1 ELSE 0]
    /\ UNCHANGED <<file, lockWriter, lockReaders, lockQueue, copies, ops, issued, reqs,
                   result, countDocs, now, schema>>
    /\ UNCHANGED connVars
    /\ UNCHANGED <<schemas, countDocsLock, mydb, models>>

\* Time passes.
Tick ==
    /\ now < MaxTime
    /\ now' = now + 1
    /\ UNCHANGED <<file, lockWriter, lockReaders, lockQueue, copies, ops, issued, reqs,
                   result, docs, countDocs, schema, call>>
    /\ UNCHANGED connVars
    /\ UNCHANGED <<schemas, countDocsLock, mydb, models>>

\* ----------------------------------------------------------- Schema calls
MaxSchemas == 2

\* What a call on the schemas leaves as it is
SchemaFrame ==
    /\ UNCHANGED <<file, lockWriter, lockReaders, lockQueue, copies, ops, issued, reqs,
                   result, docs, countDocs, now, schema, countDocsLock, mydb, models>>
    /\ UNCHANGED connVars

\* new Schema(definition, options)
SchemaNew(definition, options) ==
    /\ Len(schemas) < MaxSchemas
    /\ LET r == Schema_constructor(definition, options)
       IN  /\ schemas' = IF r.ok THEN Append(schemas, r.schema) ELSE schemas
           /\ call' = [op |-> "Schema", definition |-> definition, options |-> options,
                       ok |-> r.ok, schema |-> IF r.ok THEN Len(schemas) + 1 ELSE 0]
    /\ SchemaFrame

\* schemas[i].set_options(options)
SetOptions(i, options) ==
    /\ i \in 1..Len(schemas)
    /\ LET r == set_options(schemas[i].options, options)
       IN  /\ schemas' = [schemas EXCEPT ![i].options = r.options]
           /\ call' = [op |-> "set_options", options |-> options, ok |-> r.ok, schema |-> i]
    /\ SchemaFrame

\* Schema.copy(schemas[i])
SchemaCopy(i) ==
    /\ i \in 1..Len(schemas)
    /\ Len(schemas) < MaxSchemas
    /\ LET r == Schema_copy(schemas[i])
       IN  /\ schemas' = IF r.ok THEN Append(schemas, r.schema) ELSE schemas
           /\ call' = [op |-> "Schema.copy", original |-> i, ok |-> r.ok,
                       schema |-> IF r.ok THEN Len(schemas) + 1 ELSE 0]
    /\ SchemaFrame

\* ---------------------------------------------------------------- inputs
\* The schema of the stories, cut to its first field: a required string.
Field(k, props) == <<k, [isObj |-> TRUE, props |-> props]>>
StoryDefinition ==
    <<Field(<<"title">>, << <<"type", Fn("String")>>, <<"required", Bool(<<"true">>)>> >>)>>
StorySchema == [def |-> set_definition(StoryDefinition).def, options |-> [timestamps |-> TRUE]]

\* Record texts handed to the handler directly
Obj1(k1, v1) == << <<k1, v1>> >>
Obj2(k1, v1, k2, v2) == << <<k1, v1>>, <<k2, v2>> >>
TextA == JSON_stringify(Obj2(ID_KEY, Str(<<"1">>), <<"title">>, Str(<<"a">>)))
TextB == JSON_stringify(Obj2(ID_KEY, Str(<<"1", "2">>), <<"title">>, Str(<<"b">>)))
\* an object written over two lines
TextNL == <<"{", Q, "k", Q, ":", "1", ",", CR, LF, Q, "m", Q, ":", "2", "}">>
\* an object without "_id"
TextNoId == JSON_stringify(Obj1(<<"title">>, Str(<<"c">>)))

\* an object with the text <|NEW-LINE|> in a string
TextS == JSON_stringify(Obj1(<<"title">>, Str(newLine_encoded)))

HandlerTexts == {TextA, TextB, TextNL, TextS}
HandlerArrays == {<<>>, <<TextB, TextNL>>}
HandlerPatterns == {IdPattern([id |-> Str(<<"1">>)]), IdPattern([id |-> Str(<<"1", "2">>)])}

\* ------------------------------------------------------- specifications
InitState(f, sch, path, db) ==
    /\ file = f
    /\ lockWriter = 0
    /\ lockReaders = {}
    /\ lockQueue = <<>>
    /\ ops = [o \in OpIds |-> IdleOp]
    /\ issued = 0
    /\ reqs = 0
    /\ result = NoResult
    /\ docs = <<>>
    /\ countDocs = 0
    /\ now = 0
    /\ schema = sch
    /\ call = NoCall
    /\ dbFilePath = path
    /\ disk = DiskWith(db)
    /\ connect = NoConnect
    /\ copies = <<>>
    /\ schemas = <<>>
    /\ countDocsLock = 0
    /\ mydb = NoMydb
    /\ models = <<>>

\* A handler connected to the file f
InitWith(f, sch) == InitState(f, sch, DbPath, "file")

\* A connected handler on a new, empty file
Init == InitWith(<<>>, StorySchema)

\* The same with a schema that asks for no timestamps
PlainSchema == [def |-> StorySchema.def, options |-> [timestamps |-> FALSE]]
InitPlain == InitWith(<<>>, PlainSchema)

HandlerCall ==
    /\ CanIssue
    /\ \/ \E text \in HandlerTexts : Save(text)
       \/ \E arr \in HandlerArrays : Overwrite(arr)
       \/ Load
       \/ EraseDb
       \/ \E pattern \in HandlerPatterns : DeleteByMatch(Str(pattern))

Step ==
    \E o \in OpIds :
        \/ StatDone(o)
        \/ ReadLoad(o)
        \/ ReadEnd(o)
        \/ EraseLand(o)
        \/ OpenLand(o)
        \/ WriteLand(o)
        \/ TimerFire(o)

\* Callers that issue handler operations without awaiting one another
Next == HandlerCall \/ Step

Spec == Init /\ [][Next]_vars

\* A caller that awaits every promise before the next call
Quiescent == \A o \in OpIds : ops[o].pc = "idle"

NextSeq == (Quiescent /\ HandlerCall) \/ Step

SeqSpec == Init /\ [][NextSeq]_vars


\* A handler connected to an existing file of one of the empty shapes
FileShapes == {<<>>, <<"[", "]">>, <<"[">> \o SEP \o <<"]">>}
InitShapes == \E f \in FileShapes : InitWith(f, StorySchema)
ShapeSpec == InitShapes /\ [][NextSeq]_vars

\* ------------------------------------------------------------ the claims
\* The operation in slot o inspects (stat, read) or mutates (truncate,
\* write) the file in this step.
FileStep(o) ==
    /\ ops[o].pc \in {"stat", "read", "erase", "open", "write"}
    /\ ops'[o] # ops[o]

\* The write operation in slot w has been granted the lock and its bytes
\* are not all written yet.
InFlightWrite(w) ==
    /\ ops[w].kind \in WriteKinds
    /\ ops[w].pc \in {"stat", "read", "erase", "open", "write"}

\* C1: from the grant of the lock to a write operation until its bytes are
\* written, no load reads the file and no other write operation inspects
\* or mutates it.
C1_WriteExcludes ==
    [][\A o \in OpIds : \A w \in OpIds \ {o} : FileStep(o) => ~InFlightWrite(w)]_vars

\* C2: a write operation inspects or mutates the file only when the file
\* mutation of every write operation that asked for the lock before it is
\* completely applied, and a load reads only when no write is in flight.
C2_WritesInRequestOrder ==
    [][\A b \in OpIds : FileStep(b) =>
          /\ ops[b].kind \in WriteKinds =>
                \A a \in OpIds \ {b} :
                    (ops[a].kind \in WriteKinds /\ ops[a].seq < ops[b].seq)
                        => ops[a].pc = "timer"
          /\ ops[b].kind = "load" => \A a \in OpIds \ {b} : ~InFlightWrite(a)]_vars

\* The records of a file in the format "[" SEP r1 "," SEP r2 ... SEP "]":
\* [ok, recs]; the empty shapes hold no record.
RECURSIVE SplitOn(_, _, _)
SplitOn(s, sep, cur) ==
    IF s = <<>> THEN <<cur>>
    ELSE IF MatchAt(s, 1, sep) THEN <<cur>> \o SplitOn(Drop(s, Len(sep) + 1), sep, <<>>)
    ELSE SplitOn(Tail(s), sep, Append(cur, Head(s)))

OneLine(r) == \A i \in 1..Len(r) : r[i] \notin {CR, LF, NUL}

FileRecords(f) ==
    IF f \in FileShapes THEN [ok |-> TRUE, recs |-> <<>>]
    ELSE IF Len(f) < 6 \/ SubSeq(f, 1, 3) # <<"[", CR, LF>>
            \/ SubSeq(f, Len(f) - 2, Len(f)) # <<CR, LF, "]">>
    THEN [ok |-> FALSE, recs |-> <<>>]
    ELSE LET recs == SplitOn(SubSeq(f, 4, Len(f) - 3), <<",", CR, LF>>, <<>>)
         IN  [ok |-> \A i \in 1..Len(recs) : recs[i] # <<>> /\ OneLine(recs[i]),
              recs |-> recs]

\* The file is zero bytes or "[" SEP record_1 "," SEP ... record_n SEP "]", n >= 1.
FormatOk(f) == f = <<>> \/ (FileRecords(f).ok /\ FileRecords(f).recs # <<>>)

\* C6: after any sequence of completed handler operations on a file that
\* started empty, the file is zero bytes or in the record format, and
\* load() yields a syntactically valid JSON array.
C6_FileIsJsonArray ==
    /\ Quiescent => FormatOk(file)
    /\ (result.op = "load" /\ result.status = "resolved") => JSON_parse(result.val).ok

\* The format alone
FormatInvariant == Quiescent => FormatOk(file)


\* The single-line form in which a text is kept in the file
OnDisk(text) == ReplaceAll(text, newLine, newLine_encoded)

\* The write of the save in slot o lands in this step.
SaveLands(o) == ops[o].kind = "save" /\ ops[o].pc = "write" /\ ops'[o].pc = "timer"

\* C7: save(text) is an append: a file holding the records r_1..r_n (the
\* shapes zero bytes, "[]" and "[" SEP "]" hold none) holds r_1..r_n
\* followed by text afterwards, and all but at most the last 3 bytes of the
\* old file are still in place.
C7_SaveAppends ==
    [][\A o \in OpIds : SaveLands(o) =>
          /\ FileRecords(file).ok
          /\ FileRecords(file').ok
          /\ FileRecords(file').recs = Append(FileRecords(file).recs, OnDisk(ops[o].arg))
          /\ Len(file') >= Len(file)
          /\ \E k \in 0..3 :
                /\ k <= Len(file)
                /\ SubSeq(file', 1, Len(file) - k) = SubSeq(file, 1, Len(file) - k)]_vars

\* A save has resolved on a file that held records before it.
C7_Witness ==
    /\ result.op = "save"
    /\ Quiescent
    /\ Len(FileRecords(file).recs) >= 2

\* ------------------------------- one caller: new, save, find, edit, save
\* Contents for the story schema; the last one lacks the required title.
Titles == {<<"a">>, <<"b">>, <<"x", CR, LF, "y">>, newLine_encoded}
Story(title) == Obj1(<<"title">>, Str(title))
StoryContents == {Story(title) : title \in Titles}
EditContents == StoryContents \cup {<<>>}

\* Public calls of the scenario: save, find, save, find and one more save
ScenarioCalls == MaxOps + 2

\* A caller that creates one record and then awaits save, find, edit(s),
\* save, find, ... in this order.
DocCall ==
    \/ /\ docs = <<>>
       /\ \E content \in StoryContents : NewDocument(content, "e")
    \/ /\ Quiescent /\ issued < ScenarioCalls
       /\ docs # <<>>
       /\ result.op \in {"none", "find"}
       /\ DocSave(1)
    \/ /\ Quiescent /\ issued < ScenarioCalls
       /\ result.op = "Document.save"
       /\ Find
    \/ /\ Quiescent
       /\ result.op = "find"
       /\ \E content \in EditContents : Edit(1, content)

DocStep ==
    \E o \in OpIds :
        \/ StatDone(o)
        \/ ReadLoad(o)
        \/ ReadEnd(o)
        \/ OpenLand(o)
        \/ WriteLand(o)
        \/ TimerFire(o)

DocNext == DocCall \/ DocStep

DocSpec == Init /\ [][DocNext]_vars

\* The object find() is expected to return for a document: its id, the
\* fields of its content and its two times.
RecordOf(doc) ==
    << <<ID_KEY, doc.id>> >> \o doc.content
    \o << <<CREATED_KEY, Str(<<toISOString(doc.createTime)>>)>>,
          <<UPDATED_KEY, Str(<<toISOString(doc.updateTime)>>)>> >>

\* The find() issued after a save() of the record settles in this step.
FindSettles == result.op = "Document.save" /\ result'.op = "find"

\* find() resolves with exactly one record: the document's id, its current
\* content and its times; the file holds one record.
FoundExactlyTheRecord ==
    /\ result'.status = "resolved"
    /\ result'.val = <<RecordOf(docs[1])>>
    /\ Len(FileRecords(file).recs) = 1

\* find() resolves with a record that has the document's title.
FoundTheTitle ==
    /\ result'.status = "resolved"
    /\ \E i \in 1..Len(result'.val) :
          /\ Has(result'.val[i], <<"title">>)
          /\ Get(result'.val[i], <<"title">>) = Get(docs[1].content, <<"title">>)

\* C3: the find() after save() of the fresh record, and the find() after
\* edit(newContent) and save(), resolve with exactly one record: the
\* document's id, its current content and nothing of an earlier encoding.
C3_SaveThenFind == [][FindSettles => FoundExactlyTheRecord]_vars

\* C8: saving a record and loading it with find() returns the field values
\* the record holds, for titles of ordinary characters, CR LF and <|NEW-LINE|>.
C8_RoundTrip == [][FindSettles => FoundTheTitle]_vars

\* Both hold for the titles that are not the text <|NEW-LINE|>.
PlainTitle == Get(docs[1].content, <<"title">>).v # newLine_encoded
PlainTitlesRoundTrip ==
    [][(FindSettles /\ PlainTitle) => (FoundExactlyTheRecord /\ FoundTheTitle)]_vars

\* ------------------------------------- one caller: save, findByIdAndDelete
DeleteTexts == {TextA, TextB, TextNoId}
DeleteIds == {{Str(<<"1">>)}, {Str(<<"1", "2">>)}, {Str(<<"1">>), Str(<<"1", "2">>)}}

\* A caller that awaits every save(text) and findByIdAndDelete(ids)
DeleteCall ==
    /\ Quiescent /\ issued < ScenarioCalls
    /\ \/ \E text \in DeleteTexts : Save(text)
       \/ \E ids \in DeleteIds, asDocument \in BOOLEAN : FindByIdAndDelete(ids, asDocument)

DeleteStep ==
    \E o \in OpIds :
        \/ StatDone(o)
        \/ ReadLoad(o)
        \/ OpenLand(o)
        \/ WriteLand(o)
        \/ TimerFire(o)

DeleteNext == DeleteCall \/ DeleteStep

DeleteSpec == Init /\ [][DeleteNext]_vars

\* The findByIdAndDelete in slot o resolves in this step.
DeleteResolves(o) ==
    /\ ops[o].pc = "timer" /\ ops[o].cont.t = "deleted"
    /\ result'.op = "findByIdAndDelete"

\* The record is one of the requested ones.
Requested(rec, ids) == Has(rec, ID_KEY) /\ Get(rec, ID_KEY) \in ids

\* With stored the records read before the deletion: the promise resolves
\* with the requested ones of them, and the file holds the others, in order.
RemovedExactly(stored, ids) ==
    /\ result'.status = "resolved"
    /\ result'.val = SelectSeq(stored, LAMBDA rec : Requested(rec, ids))
    /\ FileRecords(file).ok
    /\ LET others == SelectSeq(stored, LAMBDA rec : ~Requested(rec, ids))
       IN  FileRecords(file).recs = [i \in 1..Len(others) |-> JSON_stringify(others[i])]

\* C4: findByIdAndDelete(ids) removes exactly the records whose _id is
\* among ids and resolves with exactly those; every other stored record
\* stays stored, unchanged and in the same relative order.
C4_DeletesExactlyRequested ==
    [][\A o \in OpIds : DeleteResolves(o) =>
          RemovedExactly(ops[o].cont.arr, ops[o].cont.ids)]_vars

\* The same for a store in which every record carries an _id.
AllCarryId(stored) == \A i \in 1..Len(stored) : Has(stored[i], ID_KEY)
DeletesExactlyAmongIdentified ==
    [][\A o \in OpIds : (DeleteResolves(o) /\ AllCarryId(ops[o].cont.arr)) =>
          RemovedExactly(ops[o].cont.arr, ops[o].cont.ids)]_vars

\* ------------------------------------------------ callers of new_document
\* Contents with and without an "_id"; the last one lacks the required title.
WithId(content, id) == << <<ID_KEY, Str(id)>> >> \o content
IdContents ==
    {Story(<<"a">>), WithId(Story(<<"a">>), <<"1">>), WithId(Story(<<"b">>), <<"1">>),
     WithId(Story(<<"b">>), <<"1", "2">>), <<>>}
RandomBytes == {"e", "f"}

IdNext ==
    \/ \E content \in IdContents, rnd \in RandomBytes : NewDocument(content, rnd)
    \/ Tick

IdSpec == Init /\ [][IdNext]_vars

\* C5: the records created by new_document on one model have pairwise
\* distinct ids.
C5_DistinctIds ==
    \A i, j \in 1..Len(docs) : i # j => docs[i].id # docs[j].id

\* C5, for contents without "_id": the records whose id the constructor
\* generated have pairwise distinct ids, and no two calls of new_document
\* were given the same counter value as seed.
C5_GeneratedIdsDistinct ==
    \A i, j \in 1..Len(docs) : i # j =>
        /\ docs[i].seed # docs[j].seed
        /\ (docs[i].minted /\ docs[j].minted) => docs[i].id # docs[j].id

\* Two records created in the same millisecond with the same random bytes:
\* their generated ids differ in the seed alone.
C5_Witness ==
    /\ Len(docs) >= 2
    /\ docs[1].minted /\ docs[2].minted
    /\ docs[1].createTime = docs[2].createTime
    /\ Tail(docs[1].id.v) = Tail(docs[2].id.v)

\* --------------------------------------- callers of new_document and edit
\* Two schemas: a required title and an optional n with a default of its
\* own, without and with timestamps; an optional title with the default of
\* its type and a required n.
DefinitionA ==
    <<Field(<<"title">>, << <<"type", Fn("String")>>, <<"required", Bool(<<"true">>)>> >>),
      Field(<<"n">>, << <<"type", Str(<<"number">>)>>, <<"default", Num(<<"5">>)>> >>)>>
DefinitionB ==
    <<Field(<<"title">>, << <<"type", Str(<<"string">>)>> >>),
      Field(<<"n">>, << <<"type", Fn("Number")>>, <<"required", Bool(<<"true">>)>> >>)>>
ValSchemas ==
    {[def |-> set_definition(DefinitionA).def, options |-> [timestamps |-> TRUE]],
     [def |-> set_definition(DefinitionB).def, options |-> [timestamps |-> FALSE]]}

\* Contents: each of title, n and the undeclared field x absent, present
\* with a string or present with a number.
Opt(k, vals) == {<<>>} \cup {Obj1(k, v) : v \in vals}
ValContents ==
    {t \o n \o x : t \in Opt(<<"title">>, {Str(<<"a">>), Num(<<"1">>)}),
                   n \in Opt(<<"n">>, {Num(<<"2">>), Str(<<"b">>)}),
                   x \in Opt(<<"x">>, {Str(<<"z">>)})}

InitVal == \E sch \in ValSchemas : InitWith(<<>>, sch)

\* One record is created, edited, and saved once.
ValNext ==
    \/ /\ docs = <<>>
       /\ \E content \in ValContents : NewDocument(content, "e")
    \/ /\ Quiescent
       /\ \E content \in ValContents : Edit(1, content)
    \/ /\ Quiescent /\ CanIssue
       /\ docs # <<>> /\ ~docs[1].saved
       /\ DocSave(1)
    \/ Quiescent /\ Tick
    \/ \E o \in OpIds : StatDone(o) \/ WriteLand(o) \/ TimerFire(o)

ValSpec == InitVal /\ [][ValNext]_vars

\* The content misses a required field or has a declared field of another type.
Violates(sch, content) ==
    \E i \in 1..Len(sch.def) :
        LET field == sch.def[i][1]
            decl == sch.def[i][2]
        IN  \/ decl.required /\ ~Has(content, field)
            \/ Has(content, field) /\ Get(content, field).t # decl.type

\* The declared fields, each with the value of the content or its default
Validated(sch, content) ==
    [i \in 1..Len(sch.def) |->
        <<sch.def[i][1],
          IF Has(content, sch.def[i][1]) THEN Get(content, sch.def[i][1])
          ELSE sch.def[i][2].default>>]

\* edit is called in this step.
EditStep == call'.op = "edit" /\ ops' = ops /\ now' = now

\* C9: edit(newContent) throws on a content that violates the schema and
\* leaves content, id, createdAt, updatedAt and the persisted flag as they
\* were; otherwise it replaces the content as a whole and sets updatedAt
\* to the current time.
C9_EditAllOrNothing ==
    [][EditStep =>
          LET d == call'.doc
          IN  IF Violates(schema, call'.content)
              THEN ~call'.ok /\ docs' = docs
              ELSE /\ call'.ok
                   /\ docs' = [docs EXCEPT ![d].content = Validated(schema, call'.content),
                                           ![d].updateTime = now]]_vars

\* A refused edit of a saved record that had been edited before
C9_Witness ==
    /\ call.op = "edit" /\ ~call.ok
    /\ docs[1].saved
    /\ docs[1].updateTime > docs[1].createTime
    /\ docs[1].updateTime < now

FailCall ==
    \/ /\ docs = <<>>
       /\ NewDocument(Story(<<"a">>), "e")
    \/ /\ Quiescent /\ issued < ScenarioCalls /\ now + 2 <= MaxTime
       /\ docs # <<>>
       /\ \/ DocSave(1)
          \/ Find
          \/ \E asDocument \in BOOLEAN : FindById({docs[1].id}, asDocument)
          \/ \E asDocument \in BOOLEAN : FindByIdAndDelete({docs[1].id}, asDocument)
          \/ DeleteAll
          \/ PopAll

FailStep ==
    \E o \in OpIds :
        \/ StatDone(o)
        \/ ReadLoad(o)
        \/ ReadEnd(o)
        \/ EraseLand(o)
        \/ OpenLand(o)
        \/ WriteLand(o)
        \/ TimerFire(o)
        \/ StatFail(o)
        \/ ReadFail(o)
        \/ EraseFail(o)
        \/ WriteFail(o)

FailNext == FailCall \/ FailStep

FailSpec == Init /\ [][FailNext]_vars

\* The event loop runs every callback that is due: those of fs.stat,
\* fs.writeFile, the write streams and the timers ...
StorageStep ==
    \E o \in OpIds :
        \/ StatDone(o) \/ EraseLand(o) \/ OpenLand(o) \/ WriteLand(o) \/ TimerFire(o)
        \/ StatFail(o) \/ EraseFail(o) \/ WriteFail(o)

\* ... and those of the read streams, which are due when ReadDue holds
\* (weak fairness of ReadStep, written with its enabling condition).
ReadStep == \E o \in OpIds : ReadLoad(o) \/ ReadEnd(o) \/ ReadFail(o)
ReadDue == \E o \in OpIds : ops[o].pc = "read"

FairFailSpec ==
    /\ FailSpec
    /\ WF_vars(StorageStep)
    /\ ([]<>~ReadDue \/ []<><<ReadStep>>_vars)

\* The objects stored in the file f, and the positions of those with this id
Stored(f) ==
    LET parsed == JSON_parse(decode_str(IF f = <<>> THEN <<"[", "]">> ELSE f))
    IN  IF parsed.ok THEN parsed.val ELSE <<>>
StoredWithId(f, id) ==
    {i \in 1..Len(Stored(f)) : Has(Stored(f)[i], ID_KEY) /\ Get(Stored(f)[i], ID_KEY) = id}

\* The append of Document.save in slot o is about to inspect the file.
AppendDue(o) ==
    /\ ops[o].kind = "save" /\ ops[o].pc = "stat"
    /\ ops[o].cont.t \in {"saved", "resaved"}

\* The removal of Document.save in slot o fails in this step: its read
\* stream or its write stream fails.
RemovalFails(o) ==
    /\ ops[o].kind = "delete_by_match" /\ ops[o].cont.t = "deleted_line"
    /\ ops'[o].pc \in {"idle", "pending"}

\* Document.save settles in this step.
SaveSettles ==
    /\ result'.op = "Document.save"
    /\ \E o \in OpIds : ops[o].cont.t \in {"saved", "resaved", "deleted_line"}
                        /\ ops'[o].pc = "idle"

\* The append of a persisted record finds no stored record of its id.
RemovedBeforeAppend ==
    \A o \in OpIds : (AppendDue(o) /\ docs[ops[o].cont.doc].saved)
        => StoredWithId(file, docs[ops[o].cont.doc].id) = {}

\* The flag never goes from persisted to not persisted, is set by a resolved
\* save and left alone by a rejected one.
FlagStep ==
    /\ \A d \in 1..Len(docs) : docs[d].saved => docs'[d].saved
    /\ (SaveSettles /\ result'.status = "resolved") => docs'[result'.doc].saved
    /\ (SaveSettles /\ result'.status = "rejected") => docs' = docs

\* After a failed removal nothing is appended and the flag is unchanged.
NothingAppended(o) ==
    /\ file' = file
    /\ docs' = docs
    /\ \A p \in OpIds : ops'[p].kind # "save"

\* The save is rejected.
SaveRejected(o) ==
    result' = [Rejected("Document.save") EXCEPT !.doc = ops[o].cont.doc, !.err = "storage"]

\* C11: Document.save() of a record that is not persisted appends it and, on
\* success, marks it persisted; of a persisted record it first removes the
\* stored record and then appends the current one; when the removal fails
\* the save is rejected, nothing is appended and the flag is unchanged; the
\* flag never goes from persisted to not persisted.
C11_SaveStateMachine ==
    /\ []RemovedBeforeAppend
    /\ [][/\ FlagStep
          /\ \A o \in OpIds : RemovalFails(o) => (SaveRejected(o) /\ NothingAppended(o))]_vars

\* All of it holds but the rejection, which holds when the removal fails to
\* read the file.
SaveStateMachineButRejection ==
    /\ []RemovedBeforeAppend
    /\ [][/\ FlagStep
          /\ \A o \in OpIds : RemovalFails(o) =>
                /\ NothingAppended(o)
                /\ ops[o].pc = "read" => SaveRejected(o)]_vars

\* The save of a persisted record was rejected because its removal failed:
\* the record is stored as before and still marked persisted.
RemovalRejected ==
    /\ result.op = "Document.save" /\ result.status = "rejected"
    /\ Quiescent
    /\ lockWriter = Leaked
    /\ docs[result.doc].saved
    /\ StoredWithId(file, docs[result.doc].id) # {}

\* A persisted record was saved again.
Resaved ==
    /\ result.op = "Document.save" /\ result.status = "resolved"
    /\ Quiescent
    /\ issued >= 2
    /\ Cardinality(StoredWithId(file, docs[result.doc].id)) = 1

\* C12: every promise of Document.save, find, findById, findByIdAndDelete,
\* delete_all and pop_all eventually settles, and is rejected when a storage
\* step fails.
C12_PromisesSettle ==
    \A o \in OpIds : (ops[o].pc # "idle") ~> (ops[o].pc = "idle")

\* ------------------------------- one caller: connect, disconnect, operate
\* A handler as constructed, not connected; the database file is missing or
\* is an empty file.
InitConn == \E db \in {"missing", "file"} : InitState(<<>>, StorySchema, NoPath, db)

\* A caller that awaits every promise: it connects to one of the paths,
\* disconnects, creates one record, and calls save, find, findById,
\* findByIdAndDelete, delete_all and pop_all, connected to the database file
\* or not connected.
ConnCall ==
    \/ /\ docs = <<>>
       /\ NewDocument(Story(<<"a">>), "e")
    \/ /\ Quiescent /\ connect.pc = "idle"
       /\ \/ \E path \in Paths : ConnectCall(path)
          \/ Disconnect
    \/ /\ Quiescent /\ connect.pc = "idle"
       /\ issued < ScenarioCalls /\ now + 2 <= MaxTime
       /\ dbFilePath \in {NoPath, DbPath}
       /\ docs # <<>>
       /\ \/ DocSave(1)
          \/ Find
          \/ \E asDocument \in BOOLEAN : FindById({docs[1].id}, asDocument)
          \/ \E asDocument \in BOOLEAN : FindByIdAndDelete({docs[1].id}, asDocument)
          \/ DeleteAll
          \/ PopAll

ConnStep ==
    \/ ConnectStat
    \/ ConnectCreate
    \/ \E o \in OpIds :
          \/ StatDone(o)
          \/ ReadLoad(o)
          \/ ReadEnd(o)
          \/ EraseLand(o)
          \/ OpenLand(o)
          \/ WriteLand(o)
          \/ TimerFire(o)

ConnNext == ConnCall \/ ConnStep

ConnSpec == InitConn /\ [][ConnNext]_vars

\* One of the six operations is called in this step.
OperationCalled == issued' = issued + 1

PublicOps == {"Document.save", "find", "findById", "findByIdAndDelete", "delete_all", "pop_all"}

\* C13: called on a disconnected handler, each of find, findById,
\* findByIdAndDelete, delete_all, pop_all and Document.save is rejected with
\* the connection error, and neither the lock nor the file is touched.
C13_DisconnectedFailsFast ==
    [][(OperationCalled /\ ~is_connected) =>
          /\ result'.op \in PublicOps
          /\ result'.status = "rejected"
          /\ result'.err = "notConnected"
          /\ UNCHANGED <<file, lockWriter, lockReaders, lockQueue, copies, ops, reqs, docs>>]_vars

\* pop_all was rejected by a handler that was disconnected from a file that
\* holds a record.
C13_Witness ==
    /\ result = NotConnected("pop_all")
    /\ ~is_connected
    /\ file # <<>>
    /\ Quiescent /\ lockWriter = 0 /\ lockReaders = {}

\* connect_dbFilePath settles in this step: check_db_file rejects the path
\* at once, or one of its callbacks resolves or rejects.
ConnectSettles ==
    /\ result'.op = "connect"
    /\ connect'.pc = "idle"
    /\ connect.pc # "idle" \/ result' # result

\* The path connect_dbFilePath was called with
ConnectedTo == result'.val[1]

\* C19: connect_dbFilePath(path) is rejected for a path that does not end in
\* .json and for a path that is not a regular file; a missing file is
\* created empty and connected to; after a successful connect
\* is_connected() is true and the handler uses that path; after a failed
\* one is_connected() is false, also when the handler was connected before.
C19_Connect ==
    [][ConnectSettles =>
          /\ ConnectedTo[Len(ConnectedTo)] # ".json" => result'.status = "rejected"
          /\ disk[ConnectedTo] = "directory" => result'.status = "rejected"
          /\ disk[ConnectedTo] = "missing" =>
                /\ result'.status = "resolved"
                /\ disk'[ConnectedTo] = "file"
                /\ ConnectedTo = DbPath => file' = <<>>
          /\ result'.status \in {"resolved", "rejected"}
          /\ result'.status = "resolved" => (is_connected' /\ dbFilePath' = ConnectedTo)
          /\ result'.status = "rejected" => ~is_connected']_vars

\* A handler that was connected, and stored a record, is not connected after
\* a connect to a directory was rejected.
C19_Witness ==
    /\ result = [ConnectRejected("notFile") EXCEPT !.val = <<DirPath>>]
    /\ ~is_connected
    /\ file # <<>>

\* C20: connect_dbFilePath on an existing regular .json file that the
\* process may not read and write is rejected with a permission error and
\* leaves the handler disconnected.
C20_PermissionsChecked ==
    [][(ConnectSettles /\ disk[ConnectedTo] = "noaccess") =>
          /\ result'.status = "rejected"
          /\ result'.err = "permission"
          /\ ~is_connected']_vars

\* ------------------- one caller: save, findById / findByIdAndDelete, save
\* The ids of the records: "1" is the beginning of "12".
ResaveIds == {<<"1">>, <<"1", "2">>, <<"2">>}

\* A caller that creates records of different ids, and awaits the first
\* save of each, findById and findByIdAndDelete with asDocument, and the
\* save of a record that the last of these returned.
ResaveCall ==
    \/ /\ issued = 0
       /\ \E id \in ResaveIds :
             /\ \A d \in 1..Len(docs) : docs[d].id # Str(id)
             /\ NewDocument(WithId(Story(<<"a">>), id), "e")
    \/ /\ Quiescent /\ issued < ScenarioCalls /\ now + 2 <= MaxTime
       /\ \/ \E d \in 1..countDocs : ~docs[d].saved /\ DocSave(d)
          \/ /\ result.op \in {"findById", "findByIdAndDelete"}
             /\ \E i \in 1..Len(result.recon) :
                   result.recon[i] # 0 /\ DocSave(result.recon[i])
          \/ \E id \in ResaveIds : FindById({Str(id)}, TRUE)
          \/ \E id \in ResaveIds : FindByIdAndDelete({Str(id)}, TRUE)

ResaveStep ==
    \E o \in OpIds :
        \/ StatDone(o)
        \/ ReadLoad(o)
        \/ ReadEnd(o)
        \/ OpenLand(o)
        \/ WriteLand(o)
        \/ TimerFire(o)

ResaveNext == ResaveCall \/ ResaveStep

ResaveSpec == InitPlain /\ [][ResaveNext]_vars

\* The documents an operation resolved with
Returned(res) == {res.recon[i] : i \in {j \in 1..Len(res.recon) : res.recon[j] # 0}}

\* op resolves with documents in this step.
ReturnsDocuments(op) ==
    /\ result'.op = op /\ result'.status = "resolved"
    /\ \E o \in OpIds : ops[o].pc # "idle" /\ ops'[o].pc = "idle"

\* The removal of Document.save in slot o has read the file and hands over
\* the text that replaces it.
RemovalReads(o) ==
    /\ ops[o].kind = "delete_by_match" /\ ops[o].pc = "read"
    /\ ops[o].cont.t = "deleted_line"
    /\ ops'[o].pc = "open"

\* The stored objects whose id is not id
Others(f, id) == SelectSeq(Stored(f), LAMBDA obj : ~Has(obj, ID_KEY) \/ Get(obj, ID_KEY) # id)

\* The save() of a record reconstructed by findById / findByIdAndDelete
\* resolves in this step.
ReturnedSaved ==
    /\ SaveSettles /\ result'.status = "resolved"
    /\ docs[result'.doc].seed = 0 - 1

\* C14: the records findByIdAndDelete returns with asDocument are marked not
\* persisted, those of findById persisted; the save() of a returned record,
\* awaited, leaves exactly one stored record of its id and removes no stored
\* record of another id.
C14_SaveOfReturned ==
    [][/\ ReturnsDocuments("findById") =>
             \A d \in Returned(result') : docs'[d].saved
       /\ ReturnsDocuments("findByIdAndDelete") =>
             \A d \in Returned(result') : ~docs'[d].saved
       /\ ReturnedSaved =>
             Cardinality(StoredWithId(file', docs[result'.doc].id)) = 1
       /\ \A o \in OpIds : RemovalReads(o) =>
             \A i \in 1..Len(Stored(file)) :
                Get(Stored(file)[i], ID_KEY) # docs[ops[o].cont.doc].id
                   => \E j \in 1..Len(Stored(ops'[o].wdata)) :
                         Stored(ops'[o].wdata)[j] = Stored(file)[i]]_vars

\* The same for a record whose id is not the beginning of another id
NoPrefixSaveOfReturned ==
    [][/\ ReturnedSaved =>
             Cardinality(StoredWithId(file', docs[result'.doc].id)) = 1
       /\ \A o \in OpIds : (RemovalReads(o) /\ docs[ops[o].cont.doc].id # Str(<<"1">>)) =>
             Stored(ops'[o].wdata) = Others(file, docs[ops[o].cont.doc].id)]_vars

\* The append of a record that was persisted lands in this step.
ReappendLands(o) ==
    /\ ops[o].kind = "save" /\ ops[o].pc = "write"
    /\ ops[o].cont.t = "resaved"
    /\ ops'[o].pc = "timer"

\* C15: the awaited save() of a persisted record moves it to the end of the
\* file: the removal keeps all other stored records, in their order, and the
\* append puts the record behind them.
C15_UpdateRelocates ==
    [][\A o \in OpIds :
          /\ RemovalReads(o) =>
                Stored(ops'[o].wdata) = Others(file, docs[ops[o].cont.doc].id)
          /\ ReappendLands(o) =>
                /\ Len(Stored(file')) = Len(Stored(file)) + 1
                /\ SubSeq(Stored(file'), 1, Len(Stored(file))) = Stored(file)
                /\ Get(Stored(file')[Len(Stored(file'))], ID_KEY) = docs[ops[o].cont.doc].id]_vars

\* ---------------------------- one caller: save, findById, find, pop_all
\* Contents of the records: two of them with an id, the last with the text
\* <|NEW-LINE|> as its title.
QueryContents ==
    {WithId(Story(<<"a">>), <<"1">>), WithId(Story(<<"b">>), <<"2">>), Story(newLine_encoded)}
QueryIds == {{Str(<<"1">>)}, {Str(<<"2">>)}, {Str(<<"1">>), Str(<<"2">>)}, {Str(<<"9">>)}}

\* A caller that creates records and awaits the first save of each,
\* findById and pop_all.
QueryCall ==
    \/ /\ issued = 0
       /\ \E content \in QueryContents :
             /\ \A d \in 1..Len(docs) : docs[d].content # setup_content(schema, content).content
             /\ NewDocument(content, "e")
    \/ /\ Quiescent /\ issued < ScenarioCalls /\ now + 2 <= MaxTime
       /\ \/ \E d \in 1..Len(docs) : ~docs[d].saved /\ DocSave(d)
          \/ \E ids \in QueryIds : FindById(ids, FALSE)
          \/ PopAll

QueryStep ==
    \E o \in OpIds :
        \/ StatDone(o)
        \/ ReadLoad(o)
        \/ EraseLand(o)
        \/ WriteLand(o)
        \/ TimerFire(o)

QueryNext == QueryCall \/ QueryStep

QuerySpec == InitPlain /\ [][QueryNext]_vars

\* The same caller with find and delete_all
EraseCall ==
    \/ /\ issued = 0
       /\ \E content \in QueryContents :
             /\ \A d \in 1..Len(docs) : docs[d].content # setup_content(schema, content).content
             /\ NewDocument(content, "e")
    \/ /\ Quiescent /\ issued < ScenarioCalls /\ now + 2 <= MaxTime
       /\ \/ \E d \in 1..Len(docs) : ~docs[d].saved /\ DocSave(d)
          \/ Find
          \/ DeleteAll

EraseNext == EraseCall \/ QueryStep

EraseSpec == InitPlain /\ [][EraseNext]_vars

\* The operation op in slot o settles in this step.
Settles(o, op) ==
    /\ OpName(ops[o].kind, ops[o].cont) = op
    /\ ops[o].pc # "idle" /\ ops'[o].pc = "idle"

\* The stored objects whose id is among ids, in file order
Matching(f, ids) == SelectSeq(Stored(f), LAMBDA obj : Has(obj, ID_KEY) /\ Get(obj, ID_KEY) \in ids)

\* C16: findById(ids) resolves with exactly the stored records whose _id is
\* among ids, in file order, with the empty collection when none matches,
\* and leaves the store unchanged.
C16_FindById ==
    [][\A o \in OpIds : Settles(o, "findById") =>
          /\ result' = Resolved("findById", Matching(file, ops[o].cont.ids))
          /\ file' = file]_vars

\* No stored record holds the text <|NEW-LINE|>.
NoSentinelStored ==
    \A d \in 1..Len(docs) : docs[d].saved => Get(docs[d].content, <<"title">>).v # newLine_encoded

\* It holds for the stores without the text <|NEW-LINE|>.
FindByIdOfPlainStore ==
    [][\A o \in OpIds : (Settles(o, "findById") /\ NoSentinelStored) =>
          /\ result' = Resolved("findById", Matching(file, ops[o].cont.ids))
          /\ file' = file]_vars

\* C17: the find() that follows a resolved delete_all(), and the find() on a
\* store of zero bytes, resolve with the empty collection.
C17_FindAfterDeleteAll ==
    [][\A o \in OpIds : Settles(o, "find") =>
          /\ (result.op = "delete_all" /\ result.status = "resolved")
                => result' = Resolved("find", <<>>)
          /\ file = <<>> => result' = Resolved("find", <<>>)]_vars

\* find() has resolved with the empty collection on a store that held a
\* record before delete_all.
C17_Witness ==
    /\ result = Resolved("find", <<>>)
    /\ Quiescent
    /\ \E d \in 1..Len(docs) : docs[d].saved

\* The erase of pop_all in slot o truncates the file in this step.
PopTruncates(o) ==
    /\ ops[o].kind = "erase_db" /\ ops[o].pc = "erase"
    /\ ops[o].cont.t = "popped"
    /\ ops'[o].pc = "timer"

\* C18: pop_all() resolves with all stored records, as they were stored
\* immediately before the truncation, and leaves the store empty.
C18_PopAll ==
    [][\A o \in OpIds :
          /\ PopTruncates(o) => (ops[o].cont.arr = Stored(file) /\ file' = <<>>)
          /\ Settles(o, "pop_all") =>
                /\ result' = Resolved("pop_all", ops[o].cont.arr)
                /\ file' = <<>>]_vars

\* It holds for the stores without the text <|NEW-LINE|>.
PopAllOfPlainStore ==
    [][\A o \in OpIds :
          /\ PopTruncates(o) => (ops[o].cont.arr = Stored(file) /\ file' = <<>>)
          /\ (Settles(o, "pop_all") /\ NoSentinelStored) =>
                /\ result' = Resolved("pop_all", ops[o].cont.arr)
                /\ file' = <<>>]_vars

\* ------------------------------- fields declared with a type constructor
\* Definitions of one field v, declared with String, Number or Boolean,
\* optional or required; contents without v and with v a primitive string,
\* number or boolean, or a Boolean object.
Constructors == {"String", "Number", "Boolean"}
TypeDefinition(c, r) ==
    Definition(<<Field(<<"v">>, << <<"type", Fn(c)>>, <<"required", Bool(<<r>>)>> >>)>>)
TypeContents ==
    Opt(<<"v">>, {Str(<<"a">>), Num(<<"1">>), Bool(<<"true">>),
                  [t |-> "Boolean", v |-> <<"true">>]})

InitType ==
    \E c \in Constructors, r \in BoolLits :
        InitWith(<<>>, Schema_constructor(TypeDefinition(c, r), NoOptions).schema)

\* One record is created, at the first attempt or a later one, and edited.
TypeNext ==
    \/ /\ docs = <<>>
       /\ \E content \in TypeContents : NewDocument(content, "e")
    \/ \E content \in TypeContents : Edit(1, content)
    \/ Tick

TypeSpec == InitType /\ [][TypeNext]_vars

\* The primitive type a constructor stands for
Unboxed(c) ==
    CASE c = "String" -> "string"
      [] c = "Number" -> "number"
      [] c = "Boolean" -> "boolean"

\* The schema of the model was built from the field v declared with c.
DeclaredWith(c) ==
    \E r \in BoolLits : schema = Schema_constructor(TypeDefinition(c, r), NoOptions).schema

\* The last call validated a content whose v is a primitive of type t.
ValidatedPrimitive(t) ==
    /\ call.op \in {"new_document", "edit"}
    /\ Has(call.content, <<"v">>)
    /\ Get(call.content, <<"v">>).t = t

\* C21: a field declared with the constructor String, Number or Boolean is
\* stored under the unboxed type name (string, number, boolean), and a
\* content that gives it a primitive string, number or boolean respectively
\* passes validation, in new_document and in edit.
C21_BoxedDeclarations ==
    \A c \in Constructors :
        DeclaredWith(c) =>
            /\ schema.def[1][2].type = Unboxed(c)
            /\ ValidatedPrimitive(Unboxed(c)) => call.ok

\* The same holds of the fields declared with String and with Number.
StringAndNumberUnboxed ==
    \A c \in {"String", "Number"} :
        DeclaredWith(c) =>
            /\ schema.def[1][2].type = Unboxed(c)
            /\ ValidatedPrimitive(Unboxed(c)) => call.ok

\* A primitive boolean refused by a field declared with Boolean
BooleanRefused ==
    /\ DeclaredWith("Boolean")
    /\ ValidatedPrimitive("boolean")
    /\ ~call.ok

\* ------------------------------------------------- callers of new Schema
\* Field specs: declared by name or by constructor, with and without
\* required and default; then one with an unknown property, without type,
\* with a type that is not allowed (a name, a constructor, a number), with a
\* required that is no boolean, with a default of another type (a string for
\* a number, a primitive boolean for Boolean), and one that is no object.
Spec1(type) == [isObj |-> TRUE, props |-> << <<"type", type>> >>]
Spec2(type, k, v) == [isObj |-> TRUE, props |-> << <<"type", type>>, <<k, v>> >>]
GoodSpecs ==
    {Spec1(Str(<<"string">>)), Spec1(Fn("String")), Spec1(Fn("Boolean")),
     Spec2(Str(<<"number">>), "default", Num(<<"5">>)),
     Spec2(Fn("String"), "default", Str(<<"x">>)),
     [isObj |-> TRUE, props |-> << <<"type", Str(<<"boolean">>)>>,
                                   <<"required", Bool(<<"true">>)>>,
                                   <<"default", Bool(<<"true">>)>> >>]}
BadSpecs ==
    {Spec2(Str(<<"string">>), "size", Num(<<"3">>)),
     [isObj |-> TRUE, props |-> << <<"required", Bool(<<"true">>)>> >>],
     Spec1(Str(<<"text">>)), Spec1(Fn("Object")), Spec1(Num(<<"5">>)),
     Spec2(Str(<<"string">>), "required", Str(<<"y">>)),
     Spec2(Str(<<"number">>), "default", Str(<<"x">>)),
     Spec2(Fn("Boolean"), "default", Bool(<<"false">>)),
     [isObj |-> FALSE, props |-> <<>>]}
SchemaDefinitions ==
    {NoDefinition, Definition(<<>>)}
    \cup {Definition(<<Field(<<"f">>, sp.props)>>) : sp \in GoodSpecs \cup (BadSpecs \ {[isObj |-> FALSE, props |-> <<>>]})}
    \cup {Definition(<< <<<<"f">>, [isObj |-> FALSE, props |-> <<>>]>> >>)}
    \cup {Definition(<<Field(<<"f">>, Spec1(Fn("Number")).props), <<<<"g">>, sp>> >>) :
              sp \in {Spec1(Str(<<"Date">>)), Spec1(Str(<<"text">>)),
                      Spec2(Str(<<"number">>), "default", Str(<<"x">>))}}

\* Options: none, empty, timestamps true, an unrecognized key, and
\* timestamps given as a string or as a Boolean object.
SchemaOptions ==
    {NoOptions, Options(<<>>), Options(<< <<"timestamps", Bool(<<"true">>)>> >>),
     Options(<< <<"other", Num(<<"1">>)>> >>),
     Options(<< <<"timestamps", Str(<<"y">>)>> >>),
     Options(<< <<"timestamps", [t |-> "Boolean", v |-> <<"true">>]>>, <<"other", Num(<<"1">>)>> >>)}

\* A caller that constructs a schema, and then sets options and copies.
SchemaNext ==
    \/ /\ schemas = <<>>
       /\ \E definition \in SchemaDefinitions, options \in SchemaOptions :
             SchemaNew(definition, options)
    \/ \E i \in 1..Len(schemas), options \in SchemaOptions : SetOptions(i, options)
    \/ \E i \in 1..Len(schemas) : SchemaCopy(i)

SchemaSpec == Init /\ [][SchemaNext]_vars

\* The type of a field spec as the schema names it
NamedType(sp) == Get(preprocess_definition_parameter(sp).props, "type")
AllowedTypes == {allowedTypesAndDefaultsVals[i][1] : i \in 1..Len(allowedTypesAndDefaultsVals)}

\* The field spec has an unknown property, lacks type, has a type outside
\* the allowed set, a required that is no boolean or a default whose type
\* differs from type.
FieldRefused(sp) ==
    \/ ~sp.isObj
    \/ \E i \in 1..Len(sp.props) : sp.props[i][1] \notin {"type", "required", "default"}
    \/ ~Has(sp.props, "type")
    \/ NamedType(sp).t # "string"
    \/ NamedType(sp).v[1] \notin AllowedTypes
    \/ Has(sp.props, "required") /\ Get(sp.props, "required").t # "boolean"
    \/ Has(sp.props, "default") /\ Get(sp.props, "default").t # NamedType(sp).v[1]

\* The definition is no mapping, is empty or has a refused field spec.
DefinitionRefused(definition) ==
    \/ ~definition.isObj
    \/ definition.fields = <<>>
    \/ \E i \in 1..Len(definition.fields) : FieldRefused(definition.fields[i][2])

\* The options give a recognized option a value of another type.
OptionsRefused(options) ==
    /\ ~options.falsy
    /\ Has(options.props, "timestamps")
    /\ Get(options.props, "timestamps").t # "boolean"

\* The definition of the schema sch has the fields of the definition given,
\* each with its type, with required and default as given or else FALSE and
\* the default value of the type.
FilledFrom(sch, definition) ==
    /\ Len(sch.def) = Len(definition.fields)
    /\ \A i \in 1..Len(sch.def) :
          LET sp == definition.fields[i][2]
              type == NamedType(sp).v[1]
          IN  /\ sch.def[i][1] = definition.fields[i][1]
              /\ sch.def[i][2].type = type
              /\ sch.def[i][2].required =
                    (Has(sp.props, "required") /\ Get(sp.props, "required").v = <<"true">>)
              /\ sch.def[i][2].default =
                    IF Has(sp.props, "default") THEN Get(sp.props, "default")
                    ELSE Get(allowedTypesAndDefaultsVals, type)
              /\ sch.def[i][2].default.t = type

SetOptionsStep == call'.op = "set_options"

\* The value the options give to timestamps, else its default
Supplied(options) ==
    IF ~options.falsy /\ Has(options.props, "timestamps")
    THEN Get(options.props, "timestamps").v = <<"true">>
    ELSE FALSE

\* C23: set_options(options) throws when a recognized option has a value of
\* the wrong type, and then the options of the schema are unchanged;
\* otherwise every recognized option is set to the value supplied, or to
\* its default when none is supplied, and unrecognized keys are ignored.
C23_SetOptions ==
    [][SetOptionsStep =>
          IF OptionsRefused(call'.options)
          THEN ~call'.ok /\ schemas' = schemas
          ELSE /\ call'.ok
               /\ schemas' = [schemas EXCEPT ![call'.schema].options =
                                                [timestamps |-> Supplied(call'.options)]]]_vars

\* A set_options that threw on a schema with timestamps on
C23_Witness ==
    /\ call.op = "set_options" /\ ~call.ok
    /\ schemas[call.schema].options.timestamps

\* Contents for the fields f and g of the schemas
CopyContents ==
    {f \o g : f \in Opt(<<"f">>, {Str(<<"a">>), Num(<<"1">>), Bool(<<"true">>)}),
              g \in Opt(<<"g">>, {[t |-> "Date", v |-> <<"1">>]})}

\* Schema.copy is called in this step.
SchemaCopied == call'.op = "Schema.copy"

\* C24: Schema.copy(s) of a valid schema s succeeds with a schema of the
\* same definition and options, under which every content is validated as
\* under s (accepted or refused alike, with the same resulting record), and
\* a later set_options on a schema changes no other schema, so that the
\* copy stays as it was made.
C24_CopyEquivalent ==
    [][/\ SchemaCopied =>
             /\ call'.ok
             /\ schemas'[call'.schema].def = schemas[call'.original].def
             /\ schemas'[call'.schema].options = schemas[call'.original].options
             /\ \A content \in CopyContents :
                   NewDocumentObj(content, schemas'[call'.schema], 0, now, "e")
                       = NewDocumentObj(content, schemas[call'.original], 0, now, "e")
       /\ SetOptionsStep =>
             \A j \in 1..Len(schemas) : j # call'.schema => schemas'[j] = schemas[j]]_vars

\* A copy of a schema with timestamps on and a field declared with Boolean,
\* whose default is a Boolean object
C24_Witness ==
    /\ call.op = "Schema.copy" /\ call.ok
    /\ schemas[call.original].options.timestamps
    /\ schemas[call.original].def[1][2].type = "Boolean"
    /\ schemas[call.schema] = schemas[call.original]

\* ------------------------------------------------- the counter of a model
\* new_document is called in this step.
NewDocumentStep == call'.op = "new_document" /\ ops' = ops /\ now' = now

\* C25: the counter of the model never decreases and advances by exactly
\* one on every call of new_document, also when the construction throws;
\* after every call, successful or not, the lock of the counter is free.
C25_CounterAdvances ==
    /\ [](countDocsLock = 0)
    /\ [][/\ countDocs' >= countDocs
          /\ NewDocumentStep => countDocs' = countDocs + 1]_vars

\* A call that threw after a call that returned a record: the counter
\* counts both.
C25_Witness ==
    /\ call.op = "new_document" /\ ~call.ok
    /\ Len(docs) = 1
    /\ countDocs = 2
    /\ countDocsLock = 0

\* C26: countDocs is the number of Document objects the model created: the
\* number of new_document calls that returned a record.
C26_CountsCreated == countDocs = Len(docs)

\* ------------------------------------------- handlers copied from a handler
\* Callers that copy the connected handler and save and erase through the
\* handler and its copies without awaiting one another.
CopyCall ==
    \/ \E h \in 0..Len(copies) : DBHandlerCopy(h)
    \/ /\ CanIssue
       /\ \E h \in 0..Len(copies) :
             \/ IssueOn(h, "save", TextA, <<>>, NoCont)
             \/ IssueOn(h, "erase_db", <<>>, <<>>, NoCont)
       /\ UNCHANGED <<docs, countDocs, now, schema, call>>

CopyStep ==
    \E o \in OpIds :
        \/ StatDone(o)
        \/ EraseLand(o)
        \/ WriteLand(o)
        \/ TimerFire(o)

CopyNext == CopyCall \/ CopyStep

CopySpec == Init /\ [][CopyNext]_vars

\* The operations of handler h
OpsOf(h) == {o \in OpIds : ops[o].pc # "idle" /\ ops[o].h = h}

\* The lock st is held and awaited by operations of handler h only.
LockOwn(st, h) ==
    /\ st.writer # 0 => st.writer \in OpsOf(h)
    /\ st.readers \subseteq OpsOf(h)
    /\ \A i \in 1..Len(st.queue) : st.queue[i] \in OpsOf(h)

\* DBHandler.copy is called in this step.
HandlerCopied == Len(copies') = Len(copies) + 1

\* C27: DBHandler.copy copies the connected path and nothing else, and the
\* copy has a lock of its own: the new handler's path is the path of a
\* handler there was, its lock is free whoever holds the lock of the old
\* handler, and the lock of each handler is held and awaited by the
\* operations of that handler alone, so that no handler excludes another.
C27_CopyHasOwnLock ==
    /\ [](\A h \in 0..Len(copies) : LockOwn(LockState(ops, h), h))
    /\ [][HandlerCopied =>
             LET new == copies'[Len(copies')]
             IN  /\ \E h \in 0..Len(copies) : new.dbFilePath = PathOf(h)
                 /\ new.writer = 0 /\ new.readers = {} /\ new.queue = <<>>
                 /\ ops' = ops /\ file' = file]_vars

\* Two handlers copied from the connected handler, each with a write
\* operation on the same file that holds the write lock of its handler
C27_Witness ==
    /\ Len(copies) = 2
    /\ copies[1].dbFilePath = DbPath /\ copies[2].dbFilePath = DbPath
    /\ copies[1].writer # 0 /\ copies[2].writer # 0
    /\ InFlightWrite(copies[1].writer) /\ InFlightWrite(copies[2].writer)
    /\ ops[copies[1].writer].h = 1 /\ ops[copies[2].writer].h = 2

\* ------------------------- one record, edited and saved again and again
\* The story schema with and without the timestamps option
StampSchemas == {StorySchema, PlainSchema}

\* Contents without times and without an id; the last one is refused.
StampContents == {Story(<<"a">>), <<>>}

InitStamp == \E sch \in StampSchemas : InitWith(<<>>, sch)

StampCall ==
    \/ /\ docs = <<>>
       /\ \E content \in StampContents : NewDocument(content, "e")
    \/ /\ Quiescent
       /\ \E content \in StampContents : Edit(1, content)
    \/ /\ Quiescent /\ CanIssue
       /\ docs # <<>>
       /\ DocSave(1)
    \/ Quiescent /\ Tick

StampStep ==
    \E o \in OpIds :
        \/ StatDone(o)
        \/ ReadEnd(o)
        \/ OpenLand(o)
        \/ WriteLand(o)
        \/ TimerFire(o)

StampNext == StampCall \/ StampStep

StampSpec == InitStamp /\ [][StampNext]_vars

\* The text carries the key.
Serializes(text, key) == Includes(text, <<Q>> \o key \o <<Q, ":">>)

\* C28: a record serializes createdAt and updatedAt only if the schema's
\* timestamps option is active or the content it was built from supplied
\* them: under a schema without timestamps a record built from a content
\* without times carries neither key, in its text and in the file, after
\* any edits and saves.  (No content of this specification supplies a time.)
C28_TimestampsOnlyIfActive ==
    ~schema.options.timestamps =>
        /\ \A d \in 1..Len(docs) :
              /\ ~Serializes(DocToString(docs[d]), CREATED_KEY)
              /\ ~Serializes(DocToString(docs[d]), UPDATED_KEY)
        /\ ~Serializes(file, CREATED_KEY)
        /\ ~Serializes(file, UPDATED_KEY)

\* Without the option no record and no stored text carries createdAt.
NoCreatedAtWithoutTimestamps ==
    ~schema.options.timestamps =>
        /\ \A d \in 1..Len(docs) : ~Serializes(DocToString(docs[d]), CREATED_KEY)
        /\ ~Serializes(file, CREATED_KEY)

\* Without the option a record that was never edited carries no updatedAt.
UneditedCarriesNoUpdatedAt ==
    [][(~schema.options.timestamps /\ docs # <<>> /\ docs' # <<>>
        /\ ~Serializes(DocToString(docs[1]), UPDATED_KEY)
        /\ Serializes(DocToString(docs'[1]), UPDATED_KEY))
       => call'.op = "edit" /\ call'.ok]_vars

\* A saved text with updatedAt under a schema without timestamps
UpdatedAtStored == ~schema.options.timestamps /\ Serializes(file, UPDATED_KEY)

\* new_document returns a record in this step.
RecordCreated == NewDocumentStep /\ call'.ok /\ Len(docs') = Len(docs) + 1

\* C30: a record created fresh under a schema with the timestamps option
\* has createdAt equal to updatedAt, the time of its construction; through
\* every edit, accepted or refused, and every save its id and createdAt
\* stay as they were and updatedAt never decreases, and updatedAt is never
\* earlier than createdAt.
C30_FreshRecordTimes ==
    /\ [](schema.options.timestamps =>
             \A d \in 1..Len(docs) :
                 /\ docs[d].createTime # NullTime
                 /\ docs[d].updateTime >= docs[d].createTime)
    /\ [][schema.options.timestamps =>
             /\ RecordCreated =>
                   LET new == docs'[Len(docs')]
                   IN  new.createTime = now /\ new.updateTime = new.createTime
             /\ \A d \in 1..Len(docs) :
                   /\ docs'[d].id = docs[d].id
                   /\ docs'[d].createTime = docs[d].createTime
                   /\ docs'[d].updateTime >= docs[d].updateTime]_vars

\* A record of a schema with timestamps, saved twice and edited in between,
\* after a refused edit at a later time: its updatedAt is later than its
\* createdAt and earlier than now
C30_Witness ==
    /\ schema.options.timestamps
    /\ docs # <<>>
    /\ docs[1].saved /\ issued >= 2 /\ Quiescent
    /\ call.op = "edit" /\ ~call.ok
    /\ docs[1].createTime < docs[1].updateTime
    /\ docs[1].updateTime < now

\* ------------------------------------- callers of new_document, any "_id"
\* Contents without an "_id", with a string, an empty string and a number
\* as "_id"; the last one lacks the required title.
NumberId(content, id) == << <<ID_KEY, Num(id)>> >> \o content
AdoptContents ==
    {Story(<<"a">>), WithId(Story(<<"a">>), <<"1">>), WithId(Story(<<"a">>), <<>>),
     NumberId(Story(<<"a">>), <<"7">>), <<>>}

AdoptNext ==
    \/ \E content \in AdoptContents, rnd \in RandomBytes : NewDocument(content, rnd)
    \/ Tick

AdoptSpec == Init /\ [][AdoptNext]_vars

\* The content carries a non-empty string as "_id".
ValidId(content) ==
    /\ Has(content, ID_KEY)
    /\ Get(content, ID_KEY).t = "string"
    /\ Get(content, ID_KEY).v # <<>>

\* id is <seed>-<time>-<random bytes>.
MintedForm(id, seed, t) ==
    \E rnd \in RandomBytes : id = Str(<<Dig[seed + 1], "-", Dig[t + 1], "-", rnd>>)

\* C29: every constructed record has a string id: a valid string "_id" of
\* the content is adopted unchanged, and otherwise (no "_id", or one that
\* is not a string) an id of the form <seed>-<time>-<random> is minted.
C29_StringIds ==
    /\ [](\A d \in 1..Len(docs) : docs[d].id.t = "string")
    /\ [][RecordCreated =>
             LET new == docs'[Len(docs')]
                 content == call'.content
             IN  IF ValidId(content) THEN new.id = Get(content, ID_KEY)
                 ELSE MintedForm(new.id, countDocs, now)]_vars

\* Whatever the content carries as "_id", but the empty string, is the id
\* of the record, and a content without one gets a minted id.
AnyIdAdopted ==
    [][RecordCreated =>
          LET new == docs'[Len(docs')]
              content == call'.content
          IN  IF Has(content, ID_KEY) /\ Get(content, ID_KEY) # Str(<<>>)
              THEN new.id = Get(content, ID_KEY)
              ELSE MintedForm(new.id, countDocs, now)]_vars

\* A record whose id is a number
NumberIdAdopted == \E d \in 1..Len(docs) : docs[d].id.t = "number"

\* --------------------------- one caller: reconstruct_doc, findById with
\* asDocument, on a store that holds a malformed record
\* Stored records: a record created at tick 1, and next to it a record
\* without title, one with a number as title, one created at tick 5, or
\* one created at tick 0.
Created(content, t) == content \o << <<CREATED_KEY, Str(<<toISOString(t)>>)>> >>
ReconRecords ==
    {<< <<ID_KEY, Str(<<"2">>)>> >>,
     << <<ID_KEY, Str(<<"2">>)>>, <<<<"title">>, Num(<<"3">>)>> >>,
     Created(WithId(Story(<<"b">>), <<"2">>), 5),
     Created(WithId(Story(<<"b">>), <<"2">>), 0)}
ReconFiles ==
    {prepare_doc_arr_to_str(<<JSON_stringify(Created(WithId(Story(<<"a">>), <<"1">>), 1)),
                              JSON_stringify(rec)>>) : rec \in ReconRecords}

\* Contents handed to reconstruct_doc by the caller
ReconContents ==
    ReconRecords \cup {Story(<<"a">>), Created(Story(<<"a">>), 0),
                       Created(WithId(Story(<<"a">>), <<>>), 0),
                       WithId(Story(<<"a">>), <<"1">>)}
ReconIds == {{Str(<<"1">>)}, {Str(<<"2">>)}, {Str(<<"1">>), Str(<<"2">>)}}

\* The caller starts at tick ReconStart at the latest and makes ReconCalls
\* queries, each awaited.
ReconStart == 2
ReconCalls == 2

InitRecon == \E f \in ReconFiles : InitWith(f, PlainSchema)

ReconCall ==
    \/ /\ issued = 0 /\ call = NoCall
       /\ \E content \in ReconContents, saved \in BOOLEAN : ReconstructDoc(content, saved)
    \/ /\ Quiescent /\ issued < ReconCalls
       /\ \E ids \in ReconIds : FindById(ids, TRUE) \/ FindByIdAndDelete(ids, TRUE)
    \/ issued = 0 /\ now < ReconStart /\ Tick

ReconStep ==
    \E o \in OpIds :
        \/ ReadLoad(o)
        \/ OpenLand(o)
        \/ WriteLand(o)
        \/ TimerFire(o)

ReconNext == ReconCall \/ ReconStep

ReconSpec == InitRecon /\ [][ReconNext]_vars

\* The content fails the validation, has no "_id", or has a createdAt that
\* is not before the time t.
Malformed(content, t) ==
    \/ Violates(schema, content)
    \/ ~Has(content, ID_KEY)
    \/ Has(content, CREATED_KEY) /\ NewDate(Get(content, CREATED_KEY)) >= t

\* doc is the record of the content, with the given persisted flag.
Rehydrated(doc, content, saved) ==
    /\ doc.id = Get(content, ID_KEY)
    /\ doc.content = Validated(schema, content)
    /\ doc.createTime = (IF Has(content, CREATED_KEY) THEN NewDate(Get(content, CREATED_KEY))
                         ELSE NullTime)
    /\ doc.saved = saved

\* reconstruct_doc is called by the caller in this step.
ReconstructStep == call'.op = "reconstruct_doc" /\ call' # call /\ ops' = ops /\ now' = now

\* findById or findByIdAndDelete with asDocument settles in slot o.
RehydrationSettles(o) ==
    /\ Settles(o, "findById") \/ Settles(o, "findByIdAndDelete")
    /\ ops[o].cont.asDocument

\* C31: reconstruct_doc returns null (it has no other way out: its body is
\* one try whose catch returns null) for a content that fails the
\* validation, lacks an "_id" or has a createdAt not before the current
\* time; findById and findByIdAndDelete with asDocument, over a list with a
\* malformed stored record, resolve with null in the place of that record
\* and with the Document of every other record.
C31_ReconstructReturnsNull ==
    [][/\ ReconstructStep =>
             /\ Malformed(call'.content, now) => (~call'.ok /\ docs' = docs)
             /\ call'.ok => Rehydrated(docs'[call'.doc], call'.content, docs'[call'.doc].saved)
       /\ \A o \in OpIds : RehydrationSettles(o) =>
             /\ result'.status = "resolved"
             /\ result'.val = include_docs_array_by_ids(ops[o].cont.arr, ops[o].cont.ids)
                   \/ ops[o].cont.t = "findById"
             /\ Len(result'.recon) = Len(result'.val)
             /\ \A i \in 1..Len(result'.val) :
                   IF Malformed(result'.val[i], now) THEN result'.recon[i] = 0
                   ELSE /\ result'.recon[i] \in (Len(docs) + 1)..Len(docs')
                        /\ Rehydrated(docs'[result'.recon[i]], result'.val[i],
                                      ops[o].cont.t = "findById")]_vars

\* findById with asDocument has resolved with two records, null for the
\* malformed one and a Document for the other
C31_Witness ==
    /\ result.op = "findById" /\ result.status = "resolved"
    /\ Len(result.recon) = 2
    /\ result.recon[1] # 0 /\ result.recon[2] = 0
    /\ docs[result.recon[1]].id = Str(<<"1">>)

\* ------------------------------------ one caller: delete_by_match, awaited
\* Files of three records, the last one a text of two lines, and of one.
MatchFiles ==
    {prepare_doc_arr_to_str(<<TextA, TextB, TextNL>>), prepare_doc_arr_to_str(<<TextB>>)}

\* Patterns: the quoted id "1 (in two records), a key of one record, a
\* colon (in all), a text in none, a text with the line break of the third
\* record, the empty string and a number.
MatchPatterns ==
    {Str(IdPattern([id |-> Str(<<"1">>)])), Str(<<Q, "m", Q>>), Str(<<":">>), Str(<<"z">>),
     Str(<<",", CR, LF, Q, "m">>), Str(<<>>), Num(<<"1">>)}

InitMatch == \E f \in MatchFiles : InitWith(f, PlainSchema)

MatchCall == Quiescent /\ CanIssue /\ \E pattern \in MatchPatterns : DeleteByMatch(pattern)

MatchStep ==
    \E o \in OpIds :
        \/ ReadEnd(o)
        \/ OpenLand(o)
        \/ WriteLand(o)
        \/ TimerFire(o)

MatchNext == MatchCall \/ MatchStep

MatchSpec == InitMatch /\ [][MatchNext]_vars

\* The file that holds the record lines recs
FileOf(recs) ==
    IF recs = <<>> THEN <<>>
    ELSE <<"[">> \o SEP \o Join(recs, <<",">> \o SEP) \o SEP \o <<"]">>

\* The record lines of f that do not contain the text p
LinesWithout(f, p) == SelectSeq(FileRecords(f).recs, LAMBDA line : ~Includes(line, p))

\* The delete_by_match in slot o has read the file and hands over the text
\* that replaces it.
MatchReads(o) ==
    /\ ops[o].kind = "delete_by_match" /\ ops[o].pc = "read"
    /\ ops'[o].pc = "open"

\* The text that replaces the file is written.
MatchLands(o) ==
    /\ ops[o].kind = "delete_by_match" /\ ops[o].pc = "write"
    /\ ops'[o].pc = "timer"

\* delete_by_match is called and refuses its pattern.
PatternRejected == issued' = issued + 1 /\ ops' = ops

\* No pattern that is empty reaches the lock, and a call that starts no
\* operation is rejected for its pattern and leaves the file and the lock
\* as they are.
BadPatternsRejected ==
    /\ [](\A o \in OpIds : ops[o].kind = "delete_by_match" => ops[o].arg # <<>>)
    /\ [][PatternRejected =>
             /\ result'.status = "rejected" /\ result'.err = "pattern"
             /\ file' = file
             /\ lockWriter' = lockWriter /\ lockQueue' = lockQueue]_vars

\* C32: delete_by_match(pattern) removes exactly the record lines that
\* contain pattern as a literal substring and keeps every other record
\* line, unchanged and in order; an empty or non-string pattern is rejected
\* and leaves the file unchanged; the file is empty when every line matches.
C32_DeleteByMatch ==
    /\ BadPatternsRejected
    /\ [][\A o \in OpIds :
             /\ MatchReads(o) => ops'[o].wdata = FileOf(LinesWithout(file, ops[o].arg))
             /\ MatchLands(o) => file' = ops[o].wdata]_vars

\* The same with the pattern in its single-line form: each line break of
\* the pattern is replaced by the text <|NEW-LINE|> before the lines are
\* compared.
C32_DeleteByEncodedMatch ==
    /\ BadPatternsRejected
    /\ [][\A o \in OpIds :
             /\ MatchReads(o) => ops'[o].wdata = FileOf(LinesWithout(file, OnDisk(ops[o].arg)))
             /\ MatchLands(o) => file' = ops[o].wdata]_vars

\* After a call refused for its pattern, a delete_by_match whose pattern
\* has a line break has rewritten a file of three records without the one
\* that was written over two lines
C32_Witness ==
    /\ result.err = "pattern"
    /\ \E o \in OpIds :
          /\ ops[o].kind = "delete_by_match" /\ ops[o].pc = "timer"
          /\ Includes(ops[o].arg, newLine)
          /\ file = FileOf(<<TextA, TextB>>)

\* A delete_by_match has removed every line: the file is empty.
EveryLineRemoved ==
    /\ file = <<>>
    /\ \E o \in OpIds : ops[o].kind = "delete_by_match" /\ ops[o].pc = "timer"

\* ------------------------------------------------- connections of mydb
\* The module is loaded, no model exists, and the database file exists or
\* does not.
InitMydb == \E db \in {"missing", "file"} : InitState(<<>>, PlainSchema, NoPath, db)

MydbPaths == {DbPath, DirPath}

MydbNext ==
    \/ MydbModel
    \/ \E path \in MydbPaths, m \in 0..MaxModels : MydbConnect(path, m)
    \/ MydbConnectSettle
    \/ \E m \in 0..MaxModels : MydbDisconnect(m)

MydbSpec == InitMydb /\ [][MydbNext]_vars

\* model m .dbFilePath
ModelPath(m) == copies[models[m]].dbFilePath

\* The last mydb.connect without a model has resolved and mydb.disconnect
\* has not been called without a model since: the module holds a handler
\* and no connect without a model is pending.
Established ==
    /\ mydb.dbHandler # NoHandler
    /\ ~(mydb.connect.pc # "idle" /\ mydb.connect.model = 0)

\* mydb.model() returns a model in this step.
ModelCreated == Len(models') = Len(models) + 1

\* mydb.connect without a model resolves in this step.
ConnectResolves ==
    /\ mydb.connect.pc = "check"
    /\ mydb.connect.model = 0
    /\ mydb'.connect.pc = "idle"
    /\ result'.status = "resolved"

\* C33: when mydb.connect(path) without a model resolves, the model created
\* last is connected to path; every model that mydb.model() creates from
\* then on, until mydb.disconnect() is called without a model, is connected
\* to path; a model created after that call and before the next connect is
\* not connected.
C33_ConnectionOfModels ==
    [][/\ (ConnectResolves /\ mydb.lastModel # 0 /\ mydb.dbHandler # NoHandler)
            => copies'[models'[mydb.lastModel]].dbFilePath = mydb.uri
       /\ (ModelCreated /\ Established)
            => copies'[models'[Len(models')]].dbFilePath = mydb.uri
       /\ (ModelCreated /\ mydb.dbHandler = NoHandler)
            => copies'[models'[Len(models')]].dbFilePath = NoPath]_vars

\* A model shares the handler of the module: lastModel.dbHandler = dbHandler
\* has given it that object.
SharesModuleHandler(m) == mydb.dbHandler # NoHandler /\ models[m] = mydb.dbHandler

\* While no model shares the module's handler, the models created after a
\* connect are connected to its path.
ConnectedUnlessShared ==
    [][(ModelCreated /\ Established /\ \A m \in 1..Len(models) : ~SharesModuleHandler(m))
            => copies'[models'[Len(models')]].dbFilePath = mydb.uri]_vars

\* mydb.disconnect(m) of the model that connect gave the module's handler
\* has been called, and the model created after it is not connected.
DisconnectedByAModel ==
    /\ Established
    /\ call.op = "mydb.model"
    /\ Len(models) >= 2
    /\ ModelPath(Len(models)) = NoPath
    /\ mydb.uri = DbPath

\* --------------------------------- callers that do not await: Document.save
RaceId == <<"1">>
\* Public calls in one behaviour
RaceCalls == 5

\* A slot is free for one more operation.
SlotFree == \E o \in OpIds : ops[o].pc = "idle"

\* A caller that creates one record and calls save() on it, and on the
\* records that findById, awaited, has reconstructed from the file, without
\* awaiting one save() before the next.
RaceCall ==
    \/ /\ docs = <<>>
       /\ NewDocument(WithId(Story(<<"a">>), RaceId), "e")
    \/ /\ SlotFree /\ issued < RaceCalls
       /\ \E d \in 1..Len(docs) : DocSave(d)
    \/ /\ Quiescent /\ issued < RaceCalls
       /\ file # <<>>
       /\ FindById({Str(RaceId)}, TRUE)

RaceStep ==
    \E o \in OpIds :
        \/ StatDone(o)
        \/ ReadLoad(o)
        \/ ReadEnd(o)
        \/ OpenLand(o)
        \/ WriteLand(o)
        \/ TimerFire(o)

RaceNext == RaceCall \/ RaceStep

RaceSpec == InitPlain /\ [][RaceNext]_vars

\* C34: once every save() issued without awaiting the others has settled,
\* also two calls on one new record or on two records reconstructed with
\* one id, the file holds at most one record of each id.
C34_OneRecordPerId ==
    Quiescent => Cardinality(StoredWithId(file, Str(RaceId))) <= 1

\* Two save() calls on the one new record have both resolved and the file,
\* a valid array, holds the record twice.
SavedTwice ==
    /\ Quiescent
    /\ issued = 2
    /\ Len(docs) = 1
    /\ FileRecords(file).ok
    /\ Cardinality(StoredWithId(file, Str(RaceId))) = 2

\* The same after save() of two records reconstructed from the one stored
\* record.
ResavedTwice ==
    /\ Quiescent
    /\ Len(docs) >= 3
    /\ docs[2].saved /\ docs[3].saved
    /\ docs[1].saved
    /\ issued = 5
    /\ FileRecords(file).ok
    /\ Cardinality(StoredWithId(file, Str(RaceId))) = 2

\* ------------------------- an update and the finds that run beside it
\* Public calls in one behaviour: the first save, the update, two finds
UpdateCalls == 4

\* The save() of the stored record is in progress: its removal or its
\* append is queued or running, or its append has failed.
UpdateInProgress ==
    \E o \in OpIds : ops[o].cont.t \in {"deleted_line", "resaved"} /\ ops[o].pc # "idle"

\* A caller that creates a record, awaits its first save, and then calls
\* save() again and find() without awaiting; fs.stat of an append may fail.
UpdateCall ==
    \/ /\ docs = <<>>
       /\ NewDocument(WithId(Story(<<"a">>), RaceId), "e")
    \/ /\ docs # <<>> /\ issued = 0
       /\ DocSave(1)
    \/ /\ docs # <<>> /\ docs[1].saved
       /\ SlotFree /\ issued < UpdateCalls
       /\ \/ ~UpdateInProgress /\ Quiescent /\ issued = 1 /\ DocSave(1)
          \/ Find

UpdateStep ==
    \E o \in OpIds :
        \/ StatDone(o)
        \/ ReadLoad(o)
        \/ ReadEnd(o)
        \/ OpenLand(o)
        \/ WriteLand(o)
        \/ TimerFire(o)
        \/ ops[o].cont.t = "resaved" /\ StatFail(o)

UpdateNext == UpdateCall \/ UpdateStep

UpdateSpec == InitPlain /\ [][UpdateNext]_vars

\* The objects of docArray with this id
WithIdIn(docArray, id) ==
    {i \in 1..Len(docArray) : Has(docArray[i], ID_KEY) /\ Get(docArray[i], ID_KEY) = id}

\* A find() resolves in this step while the update is in progress.
FindResolvesInUpdate ==
    /\ UpdateInProgress
    /\ \E o \in OpIds : Settles(o, "find")
    /\ result'.status = "resolved"

\* The append of the update fails in this step, after its removal.
AppendFails ==
    \E o \in OpIds : /\ ops[o].cont.t = "resaved" /\ ops[o].pc = "stat"
                     /\ ops'[o].pc = "pending"

\* C35: a find() that resolves while save() of a stored record is in
\* progress returns a record of its id, and when the append fails after the
\* removal the record of that id is still in the file.
C35_UpdateAtomic ==
    [][/\ FindResolvesInUpdate => WithIdIn(result'.val, Str(RaceId)) # {}
       /\ AppendFails => StoredWithId(file', Str(RaceId)) # {}]_vars

\* A find() issued during the update has resolved, after the removal and
\* before the append, with an empty collection.
FindMissesRecord ==
    /\ UpdateInProgress
    /\ result = Resolved("find", <<>>)
    /\ docs # <<>> /\ docs[1].saved
    /\ file \in FileShapes

\* The append has failed and the record is in the file no more.
RecordLost ==
    /\ \E o \in OpIds : ops[o].cont.t = "resaved" /\ ops[o].pc = "pending"
    /\ FileRecords(file).ok
    /\ StoredWithId(file, Str(RaceId)) = {}

\* ------------- a save beside findByIdAndDelete or pop_all, none awaited
OtherId == <<"2">>
\* Public calls in one behaviour: the first save, the removal, the new save
AppendCalls == 3

\* findByIdAndDelete or pop_all is in progress: its load or its write is
\* queued or running.
RemovalInProgress ==
    \E o \in OpIds : /\ ops[o].cont.t \in {"findByIdAndDelete", "deleted", "pop_all", "popped"}
                     /\ ops[o].pc # "idle"

\* A caller that creates two records, awaits the save of the first, calls
\* findByIdAndDelete or pop_all and, while that is in progress, save() of
\* the second.
AppendCall ==
    \/ /\ docs = <<>>
       /\ NewDocument(WithId(Story(<<"a">>), RaceId), "e")
    \/ /\ Len(docs) = 1
       /\ NewDocument(WithId(Story(<<"a">>), OtherId), "e")
    \/ /\ Len(docs) = 2 /\ issued = 0
       /\ DocSave(1)
    \/ /\ Len(docs) = 2 /\ issued = 1 /\ Quiescent
       /\ \/ \E id \in {RaceId, OtherId} : FindByIdAndDelete({Str(id)}, FALSE)
          \/ PopAll
    \/ /\ Len(docs) = 2 /\ issued = 2 /\ SlotFree
       /\ RemovalInProgress
       /\ DocSave(2)

AppendStep ==
    \E o \in OpIds :
        \/ StatDone(o)
        \/ ReadLoad(o)
        \/ EraseLand(o)
        \/ OpenLand(o)
        \/ WriteLand(o)
        \/ TimerFire(o)

AppendNext == AppendCall \/ AppendStep

AppendSpec == InitPlain /\ [][AppendNext]_vars

\* op resolves in this step, after the save() of the second record has.
ResolvesAfterSave(o, op) ==
    /\ Settles(o, op)
    /\ result'.status = "resolved"
    /\ docs[2].saved

\* C36: a record whose save() resolved while findByIdAndDelete(ids) or
\* pop_all() was in progress is, when both have settled, in the file, or its
\* id is in ids, or it is in the collection pop_all returned.
C36_NoLostAppend ==
    [][\A o \in OpIds :
          /\ ResolvesAfterSave(o, "findByIdAndDelete") =>
                \/ StoredWithId(file', Str(OtherId)) # {}
                \/ Str(OtherId) \in ops[o].cont.ids
          /\ ResolvesAfterSave(o, "pop_all") =>
                \/ StoredWithId(file', Str(OtherId)) # {}
                \/ WithIdIn(result'.val, Str(OtherId)) # {}]_vars

\* findByIdAndDelete of the first record has resolved after the save of
\* the second, and the file holds neither.
AppendLost ==
    /\ Quiescent
    /\ issued = 3
    /\ docs[2].saved
    /\ result.op = "findByIdAndDelete" /\ result.status = "resolved"
    /\ WithIdIn(result.val, Str(RaceId)) # {}
    /\ FileRecords(file).ok
    /\ Stored(file) = <<>>

\* pop_all has resolved with the first record alone after the save of the
\* second, and the file is empty.
AppendPopped ==
    /\ Quiescent
    /\ issued = 3
    /\ docs[2].saved
    /\ result.op = "pop_all" /\ result.status = "resolved"
    /\ WithIdIn(result.val, Str(OtherId)) = {}
    /\ file = <<>>

\* -------------------------------------- the removal of an update, by id
\* C37: the save() of a stored record of id X removes no stored record of
\* another id, also when X is the beginning of that id: what the removal
\* writes back holds the records of the other ids, all of them and in their
\* order.
C37_ResaveKeepsOtherIds ==
    [][\A o \in OpIds : RemovalReads(o) =>
          Others(ops'[o].wdata, docs[ops[o].cont.doc].id)
             = Others(file, docs[ops[o].cont.doc].id)]_vars

\* The record of id "1" has been saved again and the record of id "12",
\* stored before, is in the file no more.
LongerIdRemoved ==
    /\ Quiescent
    /\ result.op = "Document.save" /\ result.status = "resolved"
    /\ docs[result.doc].id = Str(<<"1">>)
    /\ docs[result.doc].seed = 0 - 1
    /\ \E d \in 1..Len(docs) : docs[d].id = Str(<<"1", "2">>) /\ docs[d].saved
    /\ FileRecords(file).ok
    /\ StoredWithId(file, Str(<<"1", "2">>)) = {}
    /\ StoredWithId(file, Str(<<"1">>)) # {}

\* ------------------------------------------- grants of the lock released
\* Slot o holds the lock of the model's handler, or held it as writer when
\* its release was left out.
HoldsLock(o) == lockWriter = o \/ o \in lockReaders

\* C38: every grant of the lock is followed by its release, also when the
\* operation fails, so that an operation that waits for the lock is granted
\* it and settles.
C38_GrantsReleased ==
    /\ \A o \in OpIds : HoldsLock(o) ~> (~HoldsLock(o) /\ lockWriter # Leaked)
    /\ \A o \in OpIds : (ops[o].pc = "queued") ~> (ops[o].pc = "idle")

\* An operation waits for a lock whose holder failed and is gone.
WaitsForLeakedLock ==
    /\ lockWriter = Leaked
    /\ \E o \in OpIds : ops[o].pc = "queued"
    /\ \A o \in OpIds : ops[o].pc \in {"queued", "idle"}

\* load and erase_db release the lock when they end, failed or not: a read
\* error in load and a write error in erase_db leave the lock to the next
\* operation.
LoadAndEraseRelease ==
    [][\A o \in OpIds :
          (HoldsLock(o) /\ ops[o].kind \in {"load", "erase_db"}
             /\ ops[o].pc \in {"read", "erase"} /\ ops'[o].pc \in {"idle", "pending"})
            => ~HoldsLock(o)' /\ lockWriter' # Leaked]_vars

\* --------------------------------- saves of new records, none awaited
\* Public calls in one behaviour: the two saves and the find
BatchCalls == 3

\* A caller that creates two records, calls save() on both without
\* awaiting, and calls find() after both have resolved.
BatchCall ==
    \/ /\ docs = <<>>
       /\ \E title \in {<<"a">>, <<"b">>} : NewDocument(WithId(Story(title), RaceId), "e")
    \/ /\ Len(docs) = 1
       /\ NewDocument(WithId(Story(<<"a">>), OtherId), "e")
    \/ /\ Len(docs) = 2 /\ issued < 2
       /\ \E d \in 1..2 : /\ ~docs[d].saved
                          /\ \A o \in OpIds : ops[o].cont.doc # d
                          /\ DocSave(d)
    \/ /\ Len(docs) = 2 /\ issued = 2 /\ Quiescent
       /\ Find

BatchStep ==
    \E o \in OpIds :
        \/ StatDone(o)
        \/ ReadLoad(o)
        \/ WriteLand(o)
        \/ TimerFire(o)

BatchNext == BatchCall \/ BatchStep

BatchSpec == InitPlain /\ [][BatchNext]_vars

\* C39: the save() calls of distinct new records, none awaited, all
\* resolve, and a find() called after that resolves with exactly these
\* records, each once.
C39_AllSavesStored ==
    /\ [](\A o \in OpIds : ops[o].pc # "pending")
    /\ [][\A o \in OpIds : Settles(o, "find") =>
             /\ docs[1].saved /\ docs[2].saved
             /\ result'.status = "resolved"
             /\ Len(result'.val) = 2
             /\ Cardinality(WithIdIn(result'.val, Str(RaceId))) = 1
             /\ Cardinality(WithIdIn(result'.val, Str(OtherId))) = 1]_vars

\* Both saves have resolved and the find after them has returned one
\* record.
OneOfTwoStored ==
    /\ Quiescent
    /\ Len(docs) = 2
    /\ docs[1].saved /\ docs[2].saved
    /\ result.op = "find" /\ result.status = "resolved"
    /\ Len(result.val) = 1

\* The saves whose writes did not overlap are both found: the find returns
\* the two records.
BothStored ==
    /\ Quiescent
    /\ Len(docs) = 2
    /\ result.op = "find" /\ result.status = "resolved"
    /\ Len(result.val) = 2
    /\ WithIdIn(result.val, Str(RaceId)) # {} /\ WithIdIn(result.val, Str(OtherId)) # {}

====
